---- MODULE Spec2Model ----
(***************************************************************************)
(* Verification model of the aws-ebs-csi-driver operational glue:          *)
(*   - hack/release-scripts/get-latest-sidecar-images (a bash script),     *)
(*   - the Makefile targets e2e/parameters and e2e/parameters-all,         *)
(*   - the Ginkgo parameter tests ([param:X]).                             *)
(* Three specifications share the variables: SpecScript, SpecMake and      *)
(* SpecTest.  Each leaves the other parts of the state idle.               *)
(***************************************************************************)
EXTENDS Integers, Sequences, FiniteSets, TLC

\* ------------------------------------------------------------------ bounds
\* Largest number of tags one image repository lists.
MaxTags == 2
\* Largest number of EBS volumes of other tests and of earlier runs that
\* exist in the account at one time.
MaxForeign == 2
\* Largest number of pods a List of pods returns.
MaxPods == 2
\* Largest number of rules of the ClusterRole ebs-csi-node-role.
MaxRules == 2
\* Largest number of mocks created.
MaxMocks == 2

VARIABLES
  \* --- release script (bash process state)
  pc,          \* label of the next command of the script
  shopts,      \* shell options in force (set -euo pipefail)
  errTrap,     \* an ERR trap is installed
  exitTrap,    \* an EXIT trap is installed
  funcDepth,   \* function nesting depth of the running command
  exitStatus,  \* "none" while running, else the exit status
  stderr,      \* what error_handler printed
  failure,     \* the command whose failure ended the script, or NoFailure
  tmpExists,   \* the mktemp file exists
  tmpFile,     \* its content: the sidecar keys, one per line
  loopWords,   \* words of the for loop still to visit
  sidecar, image, TAG, DIGEST,   \* shell variables
  outFile,     \* .sidecars of the file at OUTPUT_FILEPATH
  template,    \* .sidecars of image-digests-template.yaml
  registry,    \* image -> set of tags the registry holds
  \* --- make
  goal,        \* the target given to the top-level make
  cmdParamSet, \* PARAM_SET as given to the top-level make ("" = not given)
  PARAM_SET,   \* PARAM_SET as seen by the make that runs e2e/parameters
  makeLevel,   \* 0: the top-level make runs, 1: a sub-make runs
  mk,          \* position of the running make
  tools,       \* the files under bin/ that exist
  allLine,     \* source line of the next recipe line of e2e/parameters-all
  runs,        \* the invocations of ./hack/e2e/run.sh so far, in order
  echoed,      \* what the recipes printed with echo
  makeErrors,  \* the $(error ...) messages make stopped with
  makeStatus,  \* "running", or how the top-level make ended
  \* --- one parameter test
  test,        \* the X of the observed [param:X] test
  tpc,         \* index in TestProgram[test] of the next API call
  outcome,     \* "running", "passed", "failed" or "skipped"
  calls,       \* the API calls the test made so far, with their results
  listed,      \* what the last call returned
  objects,     \* the Kubernetes objects the test created and not yet deleted
  volumes,     \* the EBS volumes in the account
  ownTags,     \* the tags the volume provisioned by the test was created with
  validation,  \* result of the ValidateFunc of the test
  \* --- the generated mock of the Kubernetes client ---
  mocks,       \* the MockKubernetesClient objects: their ctrl and recorder fields
  recorders,   \* the MockKubernetesClientMockRecorder objects: their mock field
  last         \* the last operation on a mock: what it passed on and returned

scriptVars == <<pc, shopts, errTrap, exitTrap, funcDepth, exitStatus, stderr,
                failure, tmpExists, tmpFile, loopWords, sidecar, image, TAG,
                DIGEST, outFile, template, registry>>
makeVars == <<goal, cmdParamSet, PARAM_SET, makeLevel, mk, tools, allLine, runs,
              echoed, makeErrors, makeStatus>>
testVars == <<test, tpc, outcome, calls, listed, objects, volumes, ownTags, validation>>

mockVars == <<mocks, recorders, last>>

vars == <<scriptVars, makeVars, testVars, mockVars>>

\* ------------------------------------------------------------ tags, images
\* A tag is modelled by its version components and whether its text holds
\* the word "latest": "latest" = BareLatest, "v1.2" = [<<1,2>>, FALSE],
\* "v1.2-latest" = [<<1,2>>, TRUE].  EmptyTag is the empty string.
BareLatest == [ver |-> <<>>, latest |-> TRUE]
EmptyTag == [ver |-> <<>>, latest |-> FALSE]
Versions == {<<ma, mi>> : ma \in 1..2, mi \in 0..1}
Tags == {[ver |-> v, latest |-> l] : v \in Versions, l \in BOOLEAN} \cup {BareLatest}

SidecarKeys == {"attacher", "provisioner"}
TemplateImage(s) == IF s = "attacher" THEN "registry.k8s.io/sig-storage/csi-attacher"
                    ELSE "registry.k8s.io/sig-storage/csi-provisioner"
Images == {TemplateImage(s) : s \in SidecarKeys}
NoDigest == <<>>
NoFailure == [line |-> 0, command |-> "none"]

Listings == {S \in SUBSET Tags : Cardinality(S) <= MaxTags}

\* sed '/latest/d' deletes every line that contains "latest".
ContainsLatest(t) == t.latest

\* GNU sort -V (filevercmp): digit runs compare as numbers, a string that is
\* a proper prefix of another sorts first; "latest" sorts before every "v…".
SeqLess(a, b) ==
  \/ /\ Len(a) < Len(b)
     /\ \A i \in 1..Len(a) : a[i] = b[i]
  \/ \E k \in 1..Len(a) :
        /\ k <= Len(b)
        /\ a[k] < b[k]
        /\ \A i \in 1..(k - 1) : a[i] = b[i]
VersionLess(a, b) ==
  \/ SeqLess(a.ver, b.ver)
  \/ a.ver = b.ver /\ ~a.latest /\ b.latest

\* All orders in which a finite set can be listed.
Perms(S) == {f \in [1..Cardinality(S) -> S] : \A i, j \in 1..Cardinality(S) : f[i] = f[j] => i = j}

\* sed '/latest/d' on a sequence of lines.
RECURSIVE SedDeleteLatest(_)
SedDeleteLatest(lines) ==
  IF lines = <<>> THEN <<>>
  ELSE IF ContainsLatest(Head(lines)) THEN SedDeleteLatest(Tail(lines))
       ELSE <<Head(lines)>> \o SedDeleteLatest(Tail(lines))

\* sort -V on a sequence of lines (insertion sort by VersionLess).
RECURSIVE InsertV(_, _)
InsertV(t, sorted) ==
  IF sorted = <<>> THEN <<t>>
  ELSE IF VersionLess(t, Head(sorted)) THEN <<t>> \o sorted
       ELSE <<Head(sorted)>> \o InsertV(t, Tail(sorted))
RECURSIVE SortV(_)
SortV(lines) == IF lines = <<>> THEN <<>> ELSE InsertV(Head(lines), SortV(Tail(lines)))

\* tail -1: the last line, or nothing.
TailOne(lines) == IF lines = <<>> THEN EmptyTag ELSE lines[Len(lines)]

\* The pipeline of crane_get_latest_image_tag without the sed stage.
LatestTagPipelineNoSed(ls) == TailOne(SortV(ls))
\* crane ls "$image" | sed '/latest/d' | sort -V | tail -1
LatestTagPipeline(ls) == TailOne(SortV(SedDeleteLatest(ls)))

\* crane digest "$image:$TAG": the digests it can report.  An empty tag
\* ("image:") is either rejected or resolved to the default tag "latest".
DigestOf(img, t) == <<img, t>>
CraneDigestResults(img, t) ==
  IF t = EmptyTag
  THEN IF BareLatest \in registry[img] THEN {DigestOf(img, BareLatest)} ELSE {}
  ELSE IF t \in registry[img] THEN {DigestOf(img, t)} ELSE {}

\* ------------------------------------------------------- shell semantics
\* Without errtrace (set -E) the ERR trap is not inherited by functions.
ErrTrapRuns == errTrap /\ (funcDepth = 0 \/ "errtrace" \in shopts)

\* error_handler ${LINENO} $? "$BASH_COMMAND": prints, then exit 1.
error_handler(line, status, cmd) ==
  stderr' = Append(stderr, [line |-> line, status |-> status, command |-> cmd])

\* The EXIT trap: rm $tmp_filename.
RunExitTrap == tmpExists' = IF exitTrap THEN FALSE ELSE tmpExists

\* A command at `line` returns non-zero under set -e.
CommandFails(line, cmd) ==
  /\ "errexit" \in shopts
  /\ IF ErrTrapRuns THEN error_handler(line, 1, cmd) ELSE stderr' = stderr
  /\ failure' = [line |-> line, command |-> cmd]
  /\ exitStatus' = 1
  /\ pc' = "exited"
  /\ RunExitTrap

Goto(l) == pc' = l /\ UNCHANGED <<exitStatus, stderr, failure, tmpExists>>

\* A command that either succeeds (and the script goes on at `next`) or fails.
Step(line, cmd, next) == Goto(next) \/ CommandFails(line, cmd)

\* ---------------------------------------------------------- script steps
\* line 19
SetOptions ==
  /\ pc = "L19"
  /\ shopts' = {"errexit", "nounset", "pipefail"}
  /\ Goto("L23")
  /\ UNCHANGED <<errTrap, exitTrap, funcDepth, tmpFile, loopWords, sidecar,
                 image, TAG, DIGEST, outFile, template, registry>>
  /\ UNCHANGED <<makeVars, testVars, mockVars>>

\* line 23: SCRIPT_PATH=$(dirname $(realpath "$0")); lines 24-25 cannot fail
SetScriptPath ==
  /\ pc = "L23"
  /\ Step(23, "SCRIPT_PATH=$(dirname $(realpath $0))", "L27")
  /\ UNCHANGED <<shopts, errTrap, exitTrap, funcDepth, tmpFile, loopWords,
                 sidecar, image, TAG, DIGEST, outFile, template, registry>>
  /\ UNCHANGED <<makeVars, testVars, mockVars>>

\* line 27: tmp_filename=$(mktemp)
Mktemp ==
  /\ pc = "L27"
  /\ \/ /\ pc' = "L50"
        /\ tmpExists' = TRUE
        /\ UNCHANGED <<exitStatus, stderr, failure>>
     \/ CommandFails(27, "tmp_filename=$(mktemp)")
  /\ UNCHANGED <<shopts, errTrap, exitTrap, funcDepth, tmpFile, loopWords,
                 sidecar, image, TAG, DIGEST, outFile, template, registry>>
  /\ UNCHANGED <<makeVars, testVars, mockVars>>

\* line 50: trap 'error_handler ...' ERR
TrapErr ==
  /\ pc = "L50"
  /\ errTrap' = TRUE
  /\ Goto("L53")
  /\ UNCHANGED <<shopts, exitTrap, funcDepth, tmpFile, loopWords, sidecar,
                 image, TAG, DIGEST, outFile, template, registry>>
  /\ UNCHANGED <<makeVars, testVars, mockVars>>

\* line 53: trap 'rm $tmp_filename' EXIT
TrapExit ==
  /\ pc = "L53"
  /\ exitTrap' = TRUE
  /\ Goto("L89")
  /\ UNCHANGED <<shopts, errTrap, funcDepth, tmpFile, loopWords, sidecar,
                 image, TAG, DIGEST, outFile, template, registry>>
  /\ UNCHANGED <<makeVars, testVars, mockVars>>

\* line 89: main, entering check_dependencies (lines 34-43)
CallMain ==
  /\ pc = "L89"
  /\ funcDepth' = 2
  /\ Goto("L37")
  /\ UNCHANGED <<shopts, errTrap, exitTrap, tmpFile, loopWords, sidecar,
                 image, TAG, DIGEST, outFile, template, registry>>
  /\ UNCHANGED <<makeVars, testVars, mockVars>>

\* lines 37-42: a missing dependency is logged and the script does exit 1
\* (an explicit exit: no command failed, the ERR trap is not involved).
check_dependencies ==
  /\ pc = "L37"
  /\ \E missing \in BOOLEAN :
       IF missing
       THEN /\ exitStatus' = 1
            /\ pc' = "exited"
            /\ RunExitTrap
            /\ UNCHANGED <<stderr, failure, funcDepth>>
       ELSE /\ funcDepth' = 2
            /\ Goto("L56")
  /\ UNCHANGED <<shopts, errTrap, exitTrap, tmpFile, loopWords, sidecar,
                 image, TAG, DIGEST, outFile, template, registry>>
  /\ UNCHANGED <<makeVars, testVars, mockVars>>

\* line 56 (generate_image_digests_file): cp template OUTPUT_FILEPATH
generate_image_digests_file ==
  /\ pc = "L56"
  /\ \/ /\ outFile' = template
        /\ Goto("L67")
     \/ /\ CommandFails(56, "cp")
        /\ UNCHANGED outFile
  /\ UNCHANGED <<shopts, errTrap, exitTrap, funcDepth, tmpFile, loopWords,
                 sidecar, image, TAG, DIGEST, template, registry>>
  /\ UNCHANGED <<makeVars, testVars, mockVars>>

\* line 67: yq '.sidecars | keys | .[]' OUTPUT_FILEPATH > tmp
ListSidecarKeys ==
  /\ pc = "L67"
  /\ \/ /\ \E order \in Perms(DOMAIN outFile) : tmpFile' = order
        /\ Goto("L69")
     \/ /\ tmpFile' = <<>>
        /\ CommandFails(67, "yq keys")
  /\ UNCHANGED <<shopts, errTrap, exitTrap, funcDepth, loopWords, sidecar,
                 image, TAG, DIGEST, outFile, template, registry>>
  /\ UNCHANGED <<makeVars, testVars, mockVars>>

\* line 69: for sidecar in $(cat tmp)
ForEnter ==
  /\ pc = "L69"
  /\ loopWords' = tmpFile
  /\ Goto("L69next")
  /\ UNCHANGED <<shopts, errTrap, exitTrap, funcDepth, tmpFile, sidecar,
                 image, TAG, DIGEST, outFile, template, registry>>
  /\ UNCHANGED <<makeVars, testVars, mockVars>>

\* the loop head: next word, or done (main returns, the script exits 0)
ForNext ==
  /\ pc = "L69next"
  /\ IF loopWords = <<>>
     THEN /\ exitStatus' = 0
          /\ pc' = "exited"
          /\ funcDepth' = 0
          /\ RunExitTrap
          /\ UNCHANGED <<stderr, failure, sidecar, loopWords>>
     ELSE /\ sidecar' = Head(loopWords)
          /\ loopWords' = Tail(loopWords)
          /\ Goto("L71")
          /\ UNCHANGED funcDepth
  /\ UNCHANGED <<shopts, errTrap, exitTrap, tmpFile, image, TAG, DIGEST,
                 outFile, template, registry>>
  /\ UNCHANGED <<makeVars, testVars, mockVars>>

\* lines 70-71: log; image=$(yq ".sidecars.$sidecar.image" OUTPUT_FILEPATH)
ReadImage ==
  /\ pc = "L71"
  /\ \/ /\ image' = outFile[sidecar].image
        /\ Goto("L74")
     \/ /\ CommandFails(71, "image=$(yq .image)")
        /\ UNCHANGED image
  /\ UNCHANGED <<shopts, errTrap, exitTrap, funcDepth, tmpFile, loopWords,
                 sidecar, TAG, DIGEST, outFile, template, registry>>
  /\ UNCHANGED <<makeVars, testVars, mockVars>>

\* lines 74, 59-64: crane_get_latest_image_tag "$image".  With pipefail a
\* failing crane ls fails the pipeline, and the assignment with it.
crane_get_latest_image_tag ==
  /\ pc = "L74"
  /\ \/ /\ \E ls \in Perms(registry[image]) : TAG' = LatestTagPipeline(ls)
        /\ Goto("L75")
        /\ UNCHANGED funcDepth
     \/ /\ funcDepth' = 3
        /\ CommandFails(63, "TAG=$(crane ls | sed | sort -V | tail -1)")
        /\ UNCHANGED TAG
  /\ UNCHANGED <<shopts, errTrap, exitTrap, tmpFile, loopWords, sidecar,
                 image, DIGEST, outFile, template, registry>>
  /\ UNCHANGED <<makeVars, testVars, mockVars>>

\* line 75: yq ".sidecars.$sidecar.tag = env(TAG)" -i OUTPUT_FILEPATH
WriteTag ==
  /\ pc = "L75"
  /\ \/ /\ outFile' = [outFile EXCEPT ![sidecar].tag = TAG]
        /\ Goto("L78")
     \/ /\ CommandFails(75, "yq .tag = env(TAG)")
        /\ UNCHANGED outFile
  /\ UNCHANGED <<shopts, errTrap, exitTrap, funcDepth, tmpFile, loopWords,
                 sidecar, image, TAG, DIGEST, template, registry>>
  /\ UNCHANGED <<makeVars, testVars, mockVars>>

\* line 78: DIGEST=$(crane digest "$image:$TAG")
ReadDigest ==
  /\ pc = "L78"
  /\ \/ /\ \E d \in CraneDigestResults(image, TAG) : DIGEST' = d
        /\ Goto("L79")
     \/ /\ CommandFails(78, "DIGEST=$(crane digest)")
        /\ UNCHANGED DIGEST
  /\ UNCHANGED <<shopts, errTrap, exitTrap, funcDepth, tmpFile, loopWords,
                 sidecar, image, TAG, outFile, template, registry>>
  /\ UNCHANGED <<makeVars, testVars, mockVars>>

\* line 79: yq ".sidecars.$sidecar.manifestDigest = env(DIGEST)" -i OUTPUT_FILEPATH
WriteDigest ==
  /\ pc = "L79"
  /\ \/ /\ outFile' = [outFile EXCEPT ![sidecar].manifestDigest = DIGEST]
        /\ Goto("L69next")
     \/ /\ CommandFails(79, "yq .manifestDigest = env(DIGEST)")
        /\ UNCHANGED outFile
  /\ UNCHANGED <<shopts, errTrap, exitTrap, funcDepth, tmpFile, loopWords,
                 sidecar, image, TAG, DIGEST, template, registry>>
  /\ UNCHANGED <<makeVars, testVars, mockVars>>


\* The script before it is started.
ScriptIdle ==
  /\ pc = "L19" /\ shopts = {} /\ errTrap = FALSE /\ exitTrap = FALSE
  /\ funcDepth = 0 /\ exitStatus = "none" /\ stderr = <<>>
  /\ failure = NoFailure /\ tmpExists = FALSE /\ tmpFile = <<>>
  /\ loopWords = <<>> /\ sidecar = "" /\ image = ""
  /\ TAG = EmptyTag /\ DIGEST = NoDigest /\ outFile = <<>>
  /\ template = <<>> /\ registry = [i \in Images |-> {}]

\* --------------------------------------------- Makefile: faulty variants
\* The node-config branch with the attach limit added next to the reserved
\* attachments.
Branch_node_config_WithAttachLimit ==
  [name |-> "node-config",
   parallel |-> 5,
   focus |-> {"reservedVolumeAttachments", "hostNetwork", "nodeDisableMutation",
              "nodeTerminationGracePeriod", "volumeAttachLimit"},
   flags |-> {<<"node.reservedVolumeAttachments", "2">>,
              <<"node.volumeAttachLimit", "25">>,
              <<"node.hostNetwork", "true">>,
              <<"node.serviceAccount.disableMutation", "true">>,
              <<"node.terminationGracePeriodSeconds", "60">>}]

\* The debug branch with an individual log level test focused as well.
Branch_debug_WithLogLevel ==
  [name |-> "debug",
   parallel |-> 5,
   focus |-> {"debugLogs", "sdkDebugLog", "controllerLogLevel"},
   flags |-> {<<"debugLogs", "true">>, <<"controller.sdkDebugLog", "true">>,
              <<"controller.logLevel", "4">>}]

\* ------------------------------------------------- Makefile: e2e/parameters
\* One record per branch of the ifeq chain: the PARAM_SET value it compares
\* with, GINKGO_PARALLEL, the alternatives of GINKGO_FOCUS and the key=value
\* pairs of HELM_EXTRA_FLAGS.
\* lines 140-146: PARAM_SET=standard
Branch_standard ==
  [name |-> "standard",
   parallel |-> 5,
   focus |-> {"extraCreateMetadata", "k8sTagClusterId", "extraVolumeTags",
              "controllerMetrics", "nodeMetrics", "batching", "defaultFsType",
              "controllerLoggingFormat", "nodeLoggingFormat", "controllerLogLevel",
              "nodeLogLevel", "provisionerLogLevel", "attacherLogLevel",
              "snapshotterLogLevel", "resizerLogLevel", "nodeDriverRegistrarLogLevel",
              "storageClasses", "volumeSnapshotClasses", "defaultStorageClass",
              "snapshotterForceEnable", "controllerUserAgentExtra",
              "controllerEnablePrometheusAnnotations",
              "nodeEnablePrometheusAnnotations", "nodeKubeletPath",
              "nodeTolerateAllTaints", "controllerPodDisruptionBudget",
              "provisionerLeaderElection", "attacherLeaderElection",
              "resizerLeaderElection"},
   flags |-> {<<"controller.extraCreateMetadata", "true">>,
              <<"controller.k8sTagClusterId", "e2e-param-test">>,
              <<"controller.extraVolumeTags.TestKey", "TestValue">>,
              <<"controller.enableMetrics", "true">>, <<"node.enableMetrics", "true">>,
              <<"controller.batching", "true">>, <<"controller.defaultFsType", "xfs">>,
              <<"controller.loggingFormat", "json">>, <<"node.loggingFormat", "json">>,
              <<"controller.logLevel", "4">>, <<"node.logLevel", "4">>,
              <<"sidecars.provisioner.logLevel", "4">>,
              <<"sidecars.attacher.logLevel", "4">>,
              <<"sidecars.snapshotter.logLevel", "4">>,
              <<"sidecars.resizer.logLevel", "4">>,
              <<"sidecars.nodeDriverRegistrar.logLevel", "4">>,
              <<"defaultStorageClass.enabled", "true">>,
              <<"storageClasses[0].name", "test-sc">>,
              <<"storageClasses[0].parameters.type", "gp3">>,
              <<"volumeSnapshotClasses[0].name", "test-vsc">>,
              <<"volumeSnapshotClasses[0].deletionPolicy", "Delete">>,
              <<"sidecars.snapshotter.forceEnable", "true">>,
              <<"controller.userAgentExtra", "e2e-test">>,
              <<"controller.enablePrometheusAnnotations", "true">>,
              <<"node.enablePrometheusAnnotations", "true">>,
              <<"node.kubeletPath", "/var/lib/kubelet">>,
              <<"node.tolerateAllTaints", "true">>,
              <<"controller.podDisruptionBudget.enabled", "true">>,
              <<"sidecars.provisioner.leaderElection.enabled", "true">>,
              <<"sidecars.attacher.leaderElection.enabled", "true">>,
              <<"sidecars.resizer.leaderElection.enabled", "true">>}]

\* lines 147-153: PARAM_SET=volume-modification
Branch_volume_modification ==
  [name |-> "volume-modification",
   parallel |-> 5,
   focus |-> {"volumeModification", "volumemodifierLogLevel",
              "volumemodifierLeaderElection"},
   flags |-> {<<"controller.volumeModificationFeature.enabled", "true">>,
              <<"sidecars.provisioner.additionalArgs[0]", "'--feature-gates=VolumeAttributesClass=true'">>,
              <<"sidecars.resizer.additionalArgs[0]", "'--feature-gates=VolumeAttributesClass=true'">>,
              <<"sidecars.volumemodifier.logLevel", "4">>,
              <<"sidecars.volumemodifier.leaderElection.enabled", "false">>}]

\* lines 154-160: PARAM_SET=node-config
Branch_node_config ==
  [name |-> "node-config",
   parallel |-> 5,
   focus |-> {"reservedVolumeAttachments", "hostNetwork", "nodeDisableMutation",
              "nodeTerminationGracePeriod"},
   flags |-> {<<"node.reservedVolumeAttachments", "2">>,
              <<"node.hostNetwork", "true">>,
              <<"node.serviceAccount.disableMutation", "true">>,
              <<"node.terminationGracePeriodSeconds", "60">>}]

\* lines 162-168: PARAM_SET=volume-attach-limit
Branch_volume_attach_limit ==
  [name |-> "volume-attach-limit",
   parallel |-> 5,
   focus |-> {"volumeAttachLimit"},
   flags |-> {<<"node.volumeAttachLimit", "25">>}]

\* lines 169-175: PARAM_SET=storage-classes
Branch_storage_classes ==
  [name |-> "storage-classes",
   parallel |-> 5,
   focus |-> {"storageClasses", "volumeSnapshotClasses", "defaultStorageClass"},
   flags |-> {<<"defaultStorageClass.enabled", "true">>,
              <<"storageClasses[0].name", "test-sc">>,
              <<"storageClasses[0].parameters.type", "gp3">>,
              <<"volumeSnapshotClasses[0].name", "test-vsc">>,
              <<"volumeSnapshotClasses[0].deletionPolicy", "Delete">>}]

\* lines 176-182: PARAM_SET=debug
Branch_debug ==
  [name |-> "debug",
   parallel |-> 5,
   focus |-> {"debugLogs", "sdkDebugLog"},
   flags |-> {<<"debugLogs", "true">>, <<"controller.sdkDebugLog", "true">>}]

\* lines 183-190: PARAM_SET=metadata-labeler
Branch_metadata_labeler ==
  [name |-> "metadata-labeler",
   parallel |-> 1,
   focus |-> {"metadataLabeler", "metadataLabelerLogLevel"},
   flags |-> {<<"sidecars.metadataLabeler.enabled", "true">>,
              <<"node.metadataSources", "'metadata-labeler'">>,
              <<"sidecars.metadataLabeler.logLevel", "4">>}]

\* lines 191-197: PARAM_SET=legacy-compat
Branch_legacy_compat ==
  [name |-> "legacy-compat",
   parallel |-> 5,
   focus |-> {"useOldCSIDriver", "legacyXFS"},
   flags |-> {<<"useOldCSIDriver", "true">>, <<"node.legacyXFS", "true">>}]

\* lines 198-204: PARAM_SET=selinux
Branch_selinux ==
  [name |-> "selinux",
   parallel |-> 5,
   focus |-> {"selinux"},
   flags |-> {<<"node.selinux", "true">>}]

\* lines 205-212: PARAM_SET=fips
Branch_fips ==
  [name |-> "fips",
   parallel |-> 5,
   focus |-> {"fips"},
   flags |-> {<<"fips", "true">>}]

\* lines 213-219: PARAM_SET=infra
Branch_infra ==
  [name |-> "infra",
   parallel |-> 5,
   focus |-> {"controllerReplicaCount", "controllerPriorityClassName",
              "controllerResources", "controllerPodAnnotations", "controllerPodLabels",
              "controllerDeploymentAnnotations", "controllerRevisionHistoryLimit",
              "nodePriorityClassName", "nodeResources", "nodePodAnnotations",
              "nodeDaemonSetAnnotations", "nodeRevisionHistoryLimit",
              "provisionerResources", "attacherResources", "snapshotterResources",
              "resizerResources", "nodeDriverRegistrarResources",
              "livenessProbeResources", "customLabels", "controllerEnv", "nodeEnv",
              "controllerTopologySpreadConstraints", "controllerSecurityContext",
              "nodeSecurityContext", "controllerContainerSecurityContext",
              "controllerVolumes", "controllerVolumeMounts", "nodeVolumes",
              "nodeVolumeMounts", "controllerDnsConfig", "nodeDnsConfig",
              "controllerInitContainers", "nodeInitContainers", "imagePullPolicy"},
   flags |-> {<<"controller.replicaCount", "3">>,
              <<"controller.priorityClassName", "system-cluster-critical">>,
              <<"controller.resources.requests.cpu", "100m">>,
              <<"controller.resources.limits.memory", "256Mi">>,
              <<"controller.podAnnotations.test-annotation", "test-value">>,
              <<"controller.podLabels.test-label", "test-value">>,
              <<"controller.deploymentAnnotations.deploy-annotation", "deploy-value">>,
              <<"controller.revisionHistoryLimit", "5">>,
              <<"node.priorityClassName", "system-node-critical">>,
              <<"node.resources.requests.cpu", "50m">>,
              <<"node.resources.limits.memory", "128Mi">>,
              <<"node.podAnnotations.node-annotation", "node-value">>,
              <<"node.daemonSetAnnotations.ds-annotation", "ds-value">>,
              <<"node.revisionHistoryLimit", "3">>,
              <<"sidecars.provisioner.resources.requests.cpu", "20m">>,
              <<"sidecars.attacher.resources.requests.cpu", "15m">>,
              <<"sidecars.snapshotter.resources.requests.cpu", "15m">>,
              <<"sidecars.resizer.resources.requests.cpu", "15m">>,
              <<"sidecars.nodeDriverRegistrar.resources.requests.cpu", "10m">>,
              <<"sidecars.livenessProbe.resources.requests.cpu", "5m">>,
              <<"customLabels.custom-label", "custom-value">>,
              <<"controller.env[0].name", "TEST_ENV">>,
              <<"controller.env[0].value", "test-value">>,
              <<"node.env[0].name", "NODE_ENV">>,
              <<"node.env[0].value", "node-value">>,
              <<"controller.topologySpreadConstraints[0].maxSkew", "1">>,
              <<"controller.topologySpreadConstraints[0].topologyKey", "topology.kubernetes.io/zone">>,
              <<"controller.topologySpreadConstraints[0].whenUnsatisfiable", "ScheduleAnyway">>,
              <<"controller.securityContext.runAsNonRoot", "true">>,
              <<"controller.containerSecurityContext.readOnlyRootFilesystem", "true">>,
              <<"controller.volumes[0].name", "extra-volume">>,
              <<"controller.volumes[0].configMap.name", "kube-root-ca.crt">>,
              <<"controller.volumeMounts[0].name", "extra-volume">>,
              <<"controller.volumeMounts[0].mountPath", "/extra">>,
              <<"node.volumes[0].name", "node-extra-volume">>,
              <<"node.volumes[0].configMap.name", "kube-root-ca.crt">>,
              <<"node.volumeMounts[0].name", "node-extra-volume">>,
              <<"node.volumeMounts[0].mountPath", "/node-extra">>,
              <<"controller.dnsConfig.nameservers[0]", "8.8.8.8">>,
              <<"node.dnsConfig.nameservers[0]", "8.8.4.4">>,
              <<"controller.initContainers[0].name", "init-container">>,
              <<"controller.initContainers[0].image", "busybox">>,
              <<"controller.initContainers[0].command[0]", "echo">>,
              <<"controller.initContainers[0].command[1]", "init">>,
              <<"node.initContainers[0].name", "node-init-container">>,
              <<"node.initContainers[0].image", "busybox">>,
              <<"node.initContainers[0].command[0]", "echo">>,
              <<"node.initContainers[0].command[1]", "node-init">>,
              <<"image.pullPolicy", "Always">>}]

\* lines 221-227: PARAM_SET=update-strategy
Branch_update_strategy ==
  [name |-> "update-strategy",
   parallel |-> 5,
   focus |-> {"controllerUpdateStrategy", "nodeUpdateStrategy"},
   flags |-> {<<"controller.updateStrategy.type", "Recreate">>,
              <<"controller.updateStrategy.rollingUpdate", "null">>,
              <<"node.updateStrategy.type", "OnDelete">>}]

\* The branches in the order of the ifeq / else ifeq chain (lines 140-227).
Branches ==
  <<Branch_standard, Branch_volume_modification, Branch_node_config,
    Branch_volume_attach_limit, Branch_storage_classes, Branch_debug,
    Branch_metadata_labeler, Branch_legacy_compat, Branch_selinux, Branch_fips,
    Branch_infra, Branch_update_strategy>>

\* The final else of the chain (lines 228-229): no recipe line but $(error).
NoBranch == [name |-> "", parallel |-> 0, focus |-> {}, flags |-> {}]

\* The chain with its final else dropped: the last branch takes every other value.
RECURSIVE SelectBranchNoElse(_, _)
SelectBranchNoElse(value, i) ==
  IF i >= Len(Branches) THEN Branches[Len(Branches)]
  ELSE IF value = Branches[i].name THEN Branches[i]
  ELSE SelectBranchNoElse(value, i + 1)

\* ifeq ($(PARAM_SET),name) ... else ifeq ... else: the first branch whose
\* name is exactly the value.
RECURSIVE SelectBranch(_, _)
SelectBranch(value, i) ==
  IF i > Len(Branches) THEN NoBranch
  ELSE IF value = Branches[i].name THEN Branches[i]
  ELSE SelectBranch(value, i + 1)

\* e2e/parameters: bin/helm bin/ginkgo (also the prerequisites of e2e/parameters-all)
Prerequisites == {"bin/helm", "bin/ginkgo"}

\* The recipe of e2e/parameters-all between its two echo lines: source line
\* -> the PARAM_SET the line gives to $(MAKE) e2e/parameters.
AllRecipe ==
  235 :> "standard" @@ 236 :> "volume-modification" @@ 237 :> "node-config" @@
  238 :> "volume-attach-limit" @@ 239 :> "storage-classes" @@ 240 :> "debug" @@
  241 :> "infra" @@ 242 :> "update-strategy"

\* The values of PARAM_SET make is started with: the branch names, none ("",
\* which ifndef treats like an unset variable), and values no branch names.
ParamSetValues ==
  {Branches[i].name : i \in 1..Len(Branches)} \cup {"", "bogus", "Standard", "standard ", "all"}

\* make going on after a failing recipe line.
RecipeLineNeverStops(ok) == FALSE
\* make stops at a recipe line whose command returns non-zero.
RecipeLineStops(ok) == ~ok

\* The target the running make was asked for.
Target == IF makeLevel = 0 THEN goal ELSE "e2e/parameters"

\* make gives up: the running make exits 2, and so does its parent.
MakeStops ==
  /\ makeStatus' = "error"
  /\ mk' = "done"
  /\ makeLevel' = 0

\* lines 410-411, bin/%: a missing tool is installed by hack/tools/install.sh,
\* which can fail.
MakeTool ==
  /\ mk = "prereq"
  /\ \E t \in Prerequisites \ tools :
       \/ /\ tools' = tools \cup {t}
          /\ UNCHANGED <<mk, makeLevel, makeStatus>>
       \/ /\ makeStatus' = "error"
          /\ mk' = "toolfailed"
          /\ UNCHANGED <<tools, makeLevel>>
  /\ UNCHANGED <<goal, cmdParamSet, PARAM_SET, allLine, runs, echoed, makeErrors>>
  /\ UNCHANGED <<scriptVars, testVars, mockVars>>

\* lines 136-230: the recipe of e2e/parameters.  ifndef puts the
\* "PARAM_SET is required" error first; otherwise the chain selects the one
\* command line that runs ./hack/e2e/run.sh, or the "Unknown" error.
ParametersRecipe ==
  /\ mk = "prereq"
  /\ Target = "e2e/parameters"
  /\ Prerequisites \subseteq tools
  /\ IF PARAM_SET = ""
       THEN /\ makeErrors' = Append(makeErrors, "PARAM_SET is required")
            /\ MakeStops
            /\ UNCHANGED runs
       ELSE LET b == SelectBranch(PARAM_SET, 1) IN
            IF b = NoBranch
              THEN /\ makeErrors' = Append(makeErrors, "Unknown PARAM_SET")
                   /\ MakeStops
                   /\ UNCHANGED runs
              ELSE /\ runs' = Append(runs, [set |-> b.name, focus |-> b.focus,
                                            flags |-> b.flags, parallel |-> b.parallel,
                                            result |-> "running"])
                   /\ mk' = "run.sh"
                   /\ UNCHANGED <<makeErrors, makeStatus, makeLevel>>
  /\ UNCHANGED <<goal, cmdParamSet, PARAM_SET, tools, allLine, echoed>>
  /\ UNCHANGED <<scriptVars, testVars, mockVars>>

\* ./hack/e2e/run.sh returns.  The recipe has no further line: the make that
\* ran it ends, and a sub-make hands its status to the recipe line that
\* started it.
RunShReturns ==
  /\ mk = "run.sh"
  /\ \E ok \in BOOLEAN :
       /\ runs' = [runs EXCEPT ![Len(runs)].result = IF ok THEN "ok" ELSE "failed"]
       /\ IF RecipeLineStops(ok)
            THEN MakeStops /\ UNCHANGED allLine
            ELSE IF makeLevel = 0
              THEN /\ makeStatus' = "ok" /\ mk' = "done"
                   /\ UNCHANGED <<makeLevel, allLine>>
              ELSE /\ makeLevel' = 0 /\ mk' = "all" /\ allLine' = allLine + 1
                   /\ UNCHANGED makeStatus
  /\ UNCHANGED <<goal, cmdParamSet, PARAM_SET, tools, echoed, makeErrors>>
  /\ UNCHANGED <<scriptVars, testVars, mockVars>>

\* line 234: @echo "Running all parameter sets sequentially..."
ParametersAllStart ==
  /\ mk = "prereq"
  /\ Target = "e2e/parameters-all"
  /\ Prerequisites \subseteq tools
  /\ echoed' = Append(echoed, "Running all parameter sets sequentially...")
  /\ allLine' = 235
  /\ mk' = "all"
  /\ UNCHANGED <<goal, cmdParamSet, PARAM_SET, makeLevel, tools, runs, makeErrors, makeStatus>>
  /\ UNCHANGED <<scriptVars, testVars, mockVars>>

\* lines 235-242: $(MAKE) e2e/parameters PARAM_SET=...; the value on the
\* sub-make's command line overrides the one the parent was given.
ParametersAllSubMake ==
  /\ mk = "all"
  /\ allLine \in DOMAIN AllRecipe
  /\ makeLevel' = 1
  /\ PARAM_SET' = AllRecipe[allLine]
  /\ mk' = "prereq"
  /\ UNCHANGED <<goal, cmdParamSet, tools, allLine, runs, echoed, makeErrors, makeStatus>>
  /\ UNCHANGED <<scriptVars, testVars, mockVars>>

\* line 243: @echo "All parameter sets completed successfully!"
ParametersAllDone ==
  /\ mk = "all"
  /\ allLine = 243
  /\ echoed' = Append(echoed, "All parameter sets completed successfully!")
  /\ makeStatus' = "ok"
  /\ mk' = "done"
  /\ UNCHANGED <<goal, cmdParamSet, PARAM_SET, makeLevel, tools, allLine, runs, makeErrors>>
  /\ UNCHANGED <<scriptVars, testVars, mockVars>>

\* make before it is started.
MakeIdle ==
  /\ goal = "" /\ cmdParamSet = "" /\ PARAM_SET = "" /\ makeLevel = 0
  /\ mk = "idle" /\ tools = {} /\ allLine = 0 /\ runs = <<>>
  /\ echoed = <<>> /\ makeErrors = <<>> /\ makeStatus = "idle"

\* ------------------------------------------------------- parameter tests
\* The API calls of each [param:X] test body, in program order, with the
\* source line of the call and what the test does when the call returns an
\* error ("fail": Expect(err).NotTo(HaveOccurred()); "skip": Skip(...)).
TestProgram ==
  "extraCreateMetadata" :> <<[verb |-> "Run", resource |-> "DynamicallyProvisionedCmdVolumeTest", onErr |-> "fail", line |-> 99], [verb |-> "DescribeVolumes", resource |-> "volumes", onErr |-> "fail", line |-> 87]>> @@
  "k8sTagClusterId" :> <<[verb |-> "Run", resource |-> "DynamicallyProvisionedCmdVolumeTest", onErr |-> "fail", line |-> 157], [verb |-> "DescribeVolumes", resource |-> "volumes", onErr |-> "fail", line |-> 145]>> @@
  "extraVolumeTags" :> <<[verb |-> "Run", resource |-> "DynamicallyProvisionedCmdVolumeTest", onErr |-> "fail", line |-> 215], [verb |-> "DescribeVolumes", resource |-> "volumes", onErr |-> "fail", line |-> 203]>> @@
  "controllerMetrics" :> <<[verb |-> "List", resource |-> "pods", onErr |-> "fail", line |-> 231]>> @@
  "nodeMetrics" :> <<[verb |-> "List", resource |-> "pods", onErr |-> "fail", line |-> 265]>> @@
  "batching" :> <<[verb |-> "List", resource |-> "pods", onErr |-> "fail", line |-> 298]>> @@
  "defaultFsType" :> <<[verb |-> "Run", resource |-> "DynamicallyProvisionedCmdVolumeTest", onErr |-> "fail", line |-> 359]>> @@
  "controllerLoggingFormat" :> <<[verb |-> "List", resource |-> "pods", onErr |-> "fail", line |-> 374]>> @@
  "nodeLoggingFormat" :> <<[verb |-> "List", resource |-> "pods", onErr |-> "fail", line |-> 408]>> @@
  "volumeModification" :> <<[verb |-> "List", resource |-> "pods", onErr |-> "fail", line |-> 442]>> @@
  "metadataLabeler" :> <<[verb |-> "List", resource |-> "nodes", onErr |-> "fail", line |-> 472]>> @@
  "controllerLogLevel" :> <<[verb |-> "List", resource |-> "pods", onErr |-> "fail", line |-> 506]>> @@
  "nodeLogLevel" :> <<[verb |-> "List", resource |-> "pods", onErr |-> "fail", line |-> 540]>> @@
  "provisionerLogLevel" :> <<[verb |-> "List", resource |-> "pods", onErr |-> "fail", line |-> 574]>> @@
  "attacherLogLevel" :> <<[verb |-> "List", resource |-> "pods", onErr |-> "fail", line |-> 608]>> @@
  "snapshotterLogLevel" :> <<[verb |-> "List", resource |-> "pods", onErr |-> "fail", line |-> 642]>> @@
  "resizerLogLevel" :> <<[verb |-> "List", resource |-> "pods", onErr |-> "fail", line |-> 676]>> @@
  "nodeDriverRegistrarLogLevel" :> <<[verb |-> "List", resource |-> "pods", onErr |-> "fail", line |-> 710]>> @@
  "volumemodifierLogLevel" :> <<[verb |-> "List", resource |-> "pods", onErr |-> "fail", line |-> 744]>> @@
  "metadataLabelerLogLevel" :> <<[verb |-> "List", resource |-> "pods", onErr |-> "fail", line |-> 778]>> @@
  "storageClasses" :> <<[verb |-> "Get", resource |-> "storageclasses", onErr |-> "fail", line |-> 812]>> @@
  "volumeSnapshotClasses" :> <<[verb |-> "List", resource |-> "volumesnapshotclasses", onErr |-> "skip", line |-> 828], [verb |-> "Get", resource |-> "volumesnapshotclasses", onErr |-> "fail", line |-> 839]>> @@
  "defaultStorageClass" :> <<[verb |-> "Get", resource |-> "storageclasses", onErr |-> "fail", line |-> 863]>> @@
  "reservedVolumeAttachments" :> <<[verb |-> "List", resource |-> "pods", onErr |-> "fail", line |-> 880]>> @@
  "volumeAttachLimit" :> <<[verb |-> "List", resource |-> "pods", onErr |-> "fail", line |-> 914]>> @@
  "hostNetwork" :> <<[verb |-> "List", resource |-> "pods", onErr |-> "fail", line |-> 948]>> @@
  "debugLogs" :> <<[verb |-> "List", resource |-> "pods", onErr |-> "fail", line |-> 971]>> @@
  "sdkDebugLog" :> <<[verb |-> "List", resource |-> "pods", onErr |-> "fail", line |-> 1005]>> @@
  "useOldCSIDriver" :> <<[verb |-> "Get", resource |-> "csidrivers", onErr |-> "fail", line |-> 1039]>> @@
  "legacyXFS" :> <<[verb |-> "List", resource |-> "pods", onErr |-> "fail", line |-> 1056]>> @@
  "selinux" :> <<[verb |-> "List", resource |-> "pods", onErr |-> "fail", line |-> 1090]>> @@
  "fips" :> <<[verb |-> "List", resource |-> "pods", onErr |-> "fail", line |-> 1130]>> @@
  "snapshotterForceEnable" :> <<[verb |-> "List", resource |-> "pods", onErr |-> "fail", line |-> 1161]>> @@
  "controllerUserAgentExtra" :> <<[verb |-> "List", resource |-> "pods", onErr |-> "fail", line |-> 1191]>> @@
  "controllerEnablePrometheusAnnotations" :> <<[verb |-> "Get", resource |-> "services", onErr |-> "skip", line |-> 1225]>> @@
  "nodeEnablePrometheusAnnotations" :> <<[verb |-> "Get", resource |-> "services", onErr |-> "skip", line |-> 1245]>> @@
  "controllerPodDisruptionBudget" :> <<[verb |-> "Get", resource |-> "poddisruptionbudgets", onErr |-> "fail", line |-> 1265]>> @@
  "nodeKubeletPath" :> <<[verb |-> "List", resource |-> "pods", onErr |-> "fail", line |-> 1282]>> @@
  "nodeTolerateAllTaints" :> <<[verb |-> "List", resource |-> "pods", onErr |-> "fail", line |-> 1316]>> @@
  "provisionerLeaderElection" :> <<[verb |-> "List", resource |-> "pods", onErr |-> "fail", line |-> 1346]>> @@
  "attacherLeaderElection" :> <<[verb |-> "List", resource |-> "pods", onErr |-> "fail", line |-> 1380]>> @@
  "resizerLeaderElection" :> <<[verb |-> "List", resource |-> "pods", onErr |-> "fail", line |-> 1414]>> @@
  "nodeDisableMutation" :> <<[verb |-> "Get", resource |-> "clusterroles", onErr |-> "fail", line |-> 1449]>> @@
  "nodeTerminationGracePeriod" :> <<[verb |-> "List", resource |-> "pods", onErr |-> "fail", line |-> 1477]>> @@
  "volumemodifierLeaderElection" :> <<[verb |-> "List", resource |-> "pods", onErr |-> "fail", line |-> 1501]>> @@
  "controllerReplicaCount" :> <<[verb |-> "Get", resource |-> "deployments", onErr |-> "fail", line |-> 1531]>> @@
  "controllerNodeSelector" :> <<[verb |-> "Get", resource |-> "deployments", onErr |-> "fail", line |-> 1542]>> @@
  "controllerTolerations" :> <<[verb |-> "Get", resource |-> "deployments", onErr |-> "fail", line |-> 1553]>> @@
  "controllerPriorityClassName" :> <<[verb |-> "Get", resource |-> "deployments", onErr |-> "fail", line |-> 1571]>> @@
  "controllerResources" :> <<[verb |-> "Get", resource |-> "deployments", onErr |-> "fail", line |-> 1582]>> @@
  "controllerPodAnnotations" :> <<[verb |-> "Get", resource |-> "deployments", onErr |-> "fail", line |-> 1600]>> @@
  "controllerPodLabels" :> <<[verb |-> "Get", resource |-> "deployments", onErr |-> "fail", line |-> 1611]>> @@
  "controllerDeploymentAnnotations" :> <<[verb |-> "Get", resource |-> "deployments", onErr |-> "fail", line |-> 1622]>> @@
  "controllerServiceAccountName" :> <<[verb |-> "Get", resource |-> "deployments", onErr |-> "fail", line |-> 1633]>> @@
  "controllerServiceAccountAnnotations" :> <<[verb |-> "Get", resource |-> "serviceaccounts", onErr |-> "fail", line |-> 1644]>> @@
  "controllerRevisionHistoryLimit" :> <<[verb |-> "Get", resource |-> "deployments", onErr |-> "fail", line |-> 1655]>> @@
  "nodeNodeSelector" :> <<[verb |-> "Get", resource |-> "daemonsets", onErr |-> "fail", line |-> 1667]>> @@
  "nodeTolerations" :> <<[verb |-> "Get", resource |-> "daemonsets", onErr |-> "fail", line |-> 1678]>> @@
  "nodePriorityClassName" :> <<[verb |-> "Get", resource |-> "daemonsets", onErr |-> "fail", line |-> 1696]>> @@
  "nodeResources" :> <<[verb |-> "Get", resource |-> "daemonsets", onErr |-> "fail", line |-> 1707]>> @@
  "nodePodAnnotations" :> <<[verb |-> "Get", resource |-> "daemonsets", onErr |-> "fail", line |-> 1725]>> @@
  "nodeDaemonSetAnnotations" :> <<[verb |-> "Get", resource |-> "daemonsets", onErr |-> "fail", line |-> 1736]>> @@
  "nodeRevisionHistoryLimit" :> <<[verb |-> "Get", resource |-> "daemonsets", onErr |-> "fail", line |-> 1747]>> @@
  "nodeServiceAccountName" :> <<[verb |-> "Get", resource |-> "daemonsets", onErr |-> "fail", line |-> 1759]>> @@
  "provisionerResources" :> <<[verb |-> "Get", resource |-> "deployments", onErr |-> "fail", line |-> 1770]>> @@
  "attacherResources" :> <<[verb |-> "Get", resource |-> "deployments", onErr |-> "fail", line |-> 1787]>> @@
  "snapshotterResources" :> <<[verb |-> "Get", resource |-> "deployments", onErr |-> "fail", line |-> 1804]>> @@
  "resizerResources" :> <<[verb |-> "Get", resource |-> "deployments", onErr |-> "fail", line |-> 1821]>> @@
  "nodeDriverRegistrarResources" :> <<[verb |-> "Get", resource |-> "daemonsets", onErr |-> "fail", line |-> 1838]>> @@
  "livenessProbeResources" :> <<[verb |-> "Get", resource |-> "daemonsets", onErr |-> "fail", line |-> 1855]>> @@
  "imageRepository" :> <<[verb |-> "Get", resource |-> "deployments", onErr |-> "fail", line |-> 1872]>> @@
  "imagePullPolicy" :> <<[verb |-> "Get", resource |-> "deployments", onErr |-> "fail", line |-> 1889]>> @@
  "customLabels" :> <<[verb |-> "Get", resource |-> "deployments", onErr |-> "fail", line |-> 1906], [verb |-> "Get", resource |-> "daemonsets", onErr |-> "fail", line |-> 1910]>> @@
  "controllerEnv" :> <<[verb |-> "Get", resource |-> "deployments", onErr |-> "fail", line |-> 1921]>> @@
  "nodeEnv" :> <<[verb |-> "Get", resource |-> "daemonsets", onErr |-> "fail", line |-> 1945]>> @@
  "controllerAffinity" :> <<[verb |-> "Get", resource |-> "deployments", onErr |-> "fail", line |-> 1969]>> @@
  "nodeAffinity" :> <<[verb |-> "Get", resource |-> "daemonsets", onErr |-> "fail", line |-> 1981]>> @@
  "controllerTopologySpreadConstraints" :> <<[verb |-> "Get", resource |-> "deployments", onErr |-> "fail", line |-> 1993]>> @@
  "controllerSecurityContext" :> <<[verb |-> "Get", resource |-> "deployments", onErr |-> "fail", line |-> 2005]>> @@
  "nodeSecurityContext" :> <<[verb |-> "Get", resource |-> "daemonsets", onErr |-> "fail", line |-> 2017]>> @@
  "controllerContainerSecurityContext" :> <<[verb |-> "Get", resource |-> "deployments", onErr |-> "fail", line |-> 2028]>> @@
  "controllerUpdateStrategy" :> <<[verb |-> "Get", resource |-> "deployments", onErr |-> "fail", line |-> 2046]>> @@
  "nodeUpdateStrategy" :> <<[verb |-> "Get", resource |-> "daemonsets", onErr |-> "fail", line |-> 2057]>> @@
  "controllerVolumes" :> <<[verb |-> "Get", resource |-> "deployments", onErr |-> "fail", line |-> 2068]>> @@
  "controllerVolumeMounts" :> <<[verb |-> "Get", resource |-> "deployments", onErr |-> "fail", line |-> 2086]>> @@
  "nodeVolumes" :> <<[verb |-> "Get", resource |-> "daemonsets", onErr |-> "fail", line |-> 2110]>> @@
  "nodeVolumeMounts" :> <<[verb |-> "Get", resource |-> "daemonsets", onErr |-> "fail", line |-> 2128]>> @@
  "controllerAdditionalArgs" :> <<[verb |-> "Get", resource |-> "deployments", onErr |-> "fail", line |-> 2152]>> @@
  "nodeAdditionalArgs" :> <<[verb |-> "Get", resource |-> "daemonsets", onErr |-> "fail", line |-> 2176]>> @@
  "provisionerAdditionalArgs" :> <<[verb |-> "Get", resource |-> "deployments", onErr |-> "fail", line |-> 2200]>> @@
  "controllerDnsConfig" :> <<[verb |-> "Get", resource |-> "deployments", onErr |-> "fail", line |-> 2224]>> @@
  "nodeDnsConfig" :> <<[verb |-> "Get", resource |-> "daemonsets", onErr |-> "fail", line |-> 2236]>> @@
  "controllerInitContainers" :> <<[verb |-> "Get", resource |-> "deployments", onErr |-> "fail", line |-> 2248]>> @@
  "nodeInitContainers" :> <<[verb |-> "Get", resource |-> "daemonsets", onErr |-> "fail", line |-> 2266]>> @@
  "imagePullSecrets" :> <<[verb |-> "Get", resource |-> "deployments", onErr |-> "fail", line |-> 2284]>> @@
  "fullnameOverride" :> <<[verb |-> "Get", resource |-> "deployments", onErr |-> "fail", line |-> 2302]>> @@
  "controllerServiceMonitor" :> <<[verb |-> "Get", resource |-> "servicemonitors", onErr |-> "fail", line |-> 2313]>> @@
  "nodeServiceMonitor" :> <<[verb |-> "Get", resource |-> "servicemonitors", onErr |-> "fail", line |-> 2324]>>

\* The chart value each test is about.
ChartValue ==
  "extraCreateMetadata" :> "controller.extraCreateMetadata" @@
  "k8sTagClusterId" :> "controller.k8sTagClusterId" @@
  "extraVolumeTags" :> "controller.extraVolumeTags" @@
  "controllerMetrics" :> "controller.enableMetrics" @@
  "nodeMetrics" :> "node.enableMetrics" @@
  "batching" :> "controller.batching" @@
  "defaultFsType" :> "controller.defaultFsType" @@
  "controllerLoggingFormat" :> "controller.loggingFormat" @@
  "nodeLoggingFormat" :> "node.loggingFormat" @@
  "volumeModification" :> "controller.volumeModificationFeature" @@
  "metadataLabeler" :> "sidecars.metadataLabeler.enabled" @@
  "controllerLogLevel" :> "controller.logLevel" @@
  "nodeLogLevel" :> "node.logLevel" @@
  "provisionerLogLevel" :> "sidecars.provisioner.logLevel" @@
  "attacherLogLevel" :> "sidecars.attacher.logLevel" @@
  "snapshotterLogLevel" :> "sidecars.snapshotter.logLevel" @@
  "resizerLogLevel" :> "sidecars.resizer.logLevel" @@
  "nodeDriverRegistrarLogLevel" :> "sidecars.nodeDriverRegistrar.logLevel" @@
  "volumemodifierLogLevel" :> "sidecars.volumemodifier.logLevel" @@
  "metadataLabelerLogLevel" :> "sidecars.metadataLabeler.logLevel" @@
  "storageClasses" :> "storageClasses" @@
  "volumeSnapshotClasses" :> "volumeSnapshotClasses" @@
  "defaultStorageClass" :> "defaultStorageClass" @@
  "reservedVolumeAttachments" :> "node.reservedVolumeAttachments" @@
  "volumeAttachLimit" :> "node.volumeAttachLimit" @@
  "hostNetwork" :> "node.hostNetwork" @@
  "debugLogs" :> "debugLogs" @@
  "sdkDebugLog" :> "controller.sdkDebugLog" @@
  "useOldCSIDriver" :> "useOldCSIDriver" @@
  "legacyXFS" :> "node.legacyXFS" @@
  "selinux" :> "node.selinux" @@
  "fips" :> "fips" @@
  "snapshotterForceEnable" :> "sidecars.snapshotter.forceEnable" @@
  "controllerUserAgentExtra" :> "controller.userAgentExtra" @@
  "controllerEnablePrometheusAnnotations" :> "controller.enablePrometheusAnnotations" @@
  "nodeEnablePrometheusAnnotations" :> "node.enablePrometheusAnnotations" @@
  "controllerPodDisruptionBudget" :> "controller.podDisruptionBudget" @@
  "nodeKubeletPath" :> "node.kubeletPath" @@
  "nodeTolerateAllTaints" :> "node.tolerateAllTaints" @@
  "provisionerLeaderElection" :> "sidecars.provisioner.leaderElection" @@
  "attacherLeaderElection" :> "sidecars.attacher.leaderElection" @@
  "resizerLeaderElection" :> "sidecars.resizer.leaderElection" @@
  "nodeDisableMutation" :> "node.serviceAccount.disableMutation" @@
  "nodeTerminationGracePeriod" :> "node.terminationGracePeriodSeconds" @@
  "volumemodifierLeaderElection" :> "sidecars.volumemodifier.leaderElection" @@
  "controllerReplicaCount" :> "controller.replicaCount" @@
  "controllerNodeSelector" :> "controller.nodeSelector" @@
  "controllerTolerations" :> "controller.tolerations" @@
  "controllerPriorityClassName" :> "controller.priorityClassName" @@
  "controllerResources" :> "controller.resources" @@
  "controllerPodAnnotations" :> "controller.podAnnotations" @@
  "controllerPodLabels" :> "controller.podLabels" @@
  "controllerDeploymentAnnotations" :> "controller.deploymentAnnotations" @@
  "controllerServiceAccountName" :> "controller.serviceAccount.name" @@
  "controllerServiceAccountAnnotations" :> "controller.serviceAccount.annotations" @@
  "controllerRevisionHistoryLimit" :> "controller.revisionHistoryLimit" @@
  "nodeNodeSelector" :> "node.nodeSelector" @@
  "nodeTolerations" :> "node.tolerations" @@
  "nodePriorityClassName" :> "node.priorityClassName" @@
  "nodeResources" :> "node.resources" @@
  "nodePodAnnotations" :> "node.podAnnotations" @@
  "nodeDaemonSetAnnotations" :> "node.daemonSetAnnotations" @@
  "nodeRevisionHistoryLimit" :> "node.revisionHistoryLimit" @@
  "nodeServiceAccountName" :> "node.serviceAccount.name" @@
  "provisionerResources" :> "sidecars.provisioner.resources" @@
  "attacherResources" :> "sidecars.attacher.resources" @@
  "snapshotterResources" :> "sidecars.snapshotter.resources" @@
  "resizerResources" :> "sidecars.resizer.resources" @@
  "nodeDriverRegistrarResources" :> "sidecars.nodeDriverRegistrar.resources" @@
  "livenessProbeResources" :> "sidecars.livenessProbe.resources" @@
  "imageRepository" :> "image.repository" @@
  "imagePullPolicy" :> "image.pullPolicy" @@
  "customLabels" :> "customLabels" @@
  "controllerEnv" :> "controller.env" @@
  "nodeEnv" :> "node.env" @@
  "controllerAffinity" :> "controller.affinity" @@
  "nodeAffinity" :> "node.affinity" @@
  "controllerTopologySpreadConstraints" :> "controller.topologySpreadConstraints" @@
  "controllerSecurityContext" :> "controller.securityContext" @@
  "nodeSecurityContext" :> "node.securityContext" @@
  "controllerContainerSecurityContext" :> "controller.containerSecurityContext" @@
  "controllerUpdateStrategy" :> "controller.updateStrategy" @@
  "nodeUpdateStrategy" :> "node.updateStrategy" @@
  "controllerVolumes" :> "controller.volumes" @@
  "controllerVolumeMounts" :> "controller.volumeMounts" @@
  "nodeVolumes" :> "node.volumes" @@
  "nodeVolumeMounts" :> "node.volumeMounts" @@
  "controllerAdditionalArgs" :> "controller.additionalArgs" @@
  "nodeAdditionalArgs" :> "node.additionalArgs" @@
  "provisionerAdditionalArgs" :> "sidecars.provisioner.additionalArgs" @@
  "controllerDnsConfig" :> "controller.dnsConfig" @@
  "nodeDnsConfig" :> "node.dnsConfig" @@
  "controllerInitContainers" :> "controller.initContainers" @@
  "nodeInitContainers" :> "node.initContainers" @@
  "imagePullSecrets" :> "imagePullSecrets" @@
  "fullnameOverride" :> "fullnameOverride" @@
  "controllerServiceMonitor" :> "controller.serviceMonitor" @@
  "nodeServiceMonitor" :> "node.serviceMonitor"

\* The Helm overrides whose value is the literal the test asserts.
AssertedOverrides ==
  "extraCreateMetadata" :> {} @@
  "k8sTagClusterId" :> {<<"controller.k8sTagClusterId", "e2e-param-test">>} @@
  "extraVolumeTags" :> {<<"controller.extraVolumeTags.TestKey", "TestValue">>} @@
  "controllerMetrics" :> {} @@
  "nodeMetrics" :> {} @@
  "batching" :> {<<"controller.batching", "true">>} @@
  "defaultFsType" :> {<<"controller.defaultFsType", "xfs">>} @@
  "controllerLoggingFormat" :> {<<"controller.loggingFormat", "json">>} @@
  "nodeLoggingFormat" :> {<<"node.loggingFormat", "json">>} @@
  "volumeModification" :> {} @@
  "metadataLabeler" :> {} @@
  "controllerLogLevel" :> {<<"controller.logLevel", "4">>} @@
  "nodeLogLevel" :> {<<"node.logLevel", "4">>} @@
  "provisionerLogLevel" :> {<<"sidecars.provisioner.logLevel", "4">>} @@
  "attacherLogLevel" :> {<<"sidecars.attacher.logLevel", "4">>} @@
  "snapshotterLogLevel" :> {<<"sidecars.snapshotter.logLevel", "4">>} @@
  "resizerLogLevel" :> {<<"sidecars.resizer.logLevel", "4">>} @@
  "nodeDriverRegistrarLogLevel" :> {<<"sidecars.nodeDriverRegistrar.logLevel", "4">>} @@
  "volumemodifierLogLevel" :> {<<"sidecars.volumemodifier.logLevel", "4">>} @@
  "metadataLabelerLogLevel" :> {<<"sidecars.metadataLabeler.logLevel", "4">>} @@
  "storageClasses" :> {<<"storageClasses[0].name", "test-sc">>, <<"storageClasses[0].parameters.type", "gp3">>} @@
  "volumeSnapshotClasses" :> {<<"volumeSnapshotClasses[0].name", "test-vsc">>, <<"volumeSnapshotClasses[0].deletionPolicy", "Delete">>} @@
  "defaultStorageClass" :> {} @@
  "reservedVolumeAttachments" :> {<<"node.reservedVolumeAttachments", "2">>} @@
  "volumeAttachLimit" :> {<<"node.volumeAttachLimit", "25">>} @@
  "hostNetwork" :> {<<"node.hostNetwork", "true">>} @@
  "debugLogs" :> {} @@
  "sdkDebugLog" :> {<<"controller.sdkDebugLog", "true">>} @@
  "useOldCSIDriver" :> {} @@
  "legacyXFS" :> {<<"node.legacyXFS", "true">>} @@
  "selinux" :> {} @@
  "fips" :> {} @@
  "snapshotterForceEnable" :> {} @@
  "controllerUserAgentExtra" :> {<<"controller.userAgentExtra", "e2e-test">>} @@
  "controllerEnablePrometheusAnnotations" :> {} @@
  "nodeEnablePrometheusAnnotations" :> {} @@
  "controllerPodDisruptionBudget" :> {} @@
  "nodeKubeletPath" :> {<<"node.kubeletPath", "/var/lib/kubelet">>} @@
  "nodeTolerateAllTaints" :> {} @@
  "provisionerLeaderElection" :> {<<"sidecars.provisioner.leaderElection.enabled", "true">>} @@
  "attacherLeaderElection" :> {<<"sidecars.attacher.leaderElection.enabled", "true">>} @@
  "resizerLeaderElection" :> {<<"sidecars.resizer.leaderElection.enabled", "true">>} @@
  "nodeDisableMutation" :> {} @@
  "nodeTerminationGracePeriod" :> {<<"node.terminationGracePeriodSeconds", "60">>} @@
  "volumemodifierLeaderElection" :> {<<"sidecars.volumemodifier.leaderElection.enabled", "false">>} @@
  "controllerReplicaCount" :> {<<"controller.replicaCount", "3">>} @@
  "controllerNodeSelector" :> {<<"controller.nodeSelector.node-role", "controller">>} @@
  "controllerTolerations" :> {<<"controller.tolerations[0].key", "test-key">>, <<"controller.tolerations[0].value", "test-value">>} @@
  "controllerPriorityClassName" :> {<<"controller.priorityClassName", "system-cluster-critical">>} @@
  "controllerResources" :> {<<"controller.resources.requests.cpu", "100m">>, <<"controller.resources.limits.memory", "256Mi">>} @@
  "controllerPodAnnotations" :> {<<"controller.podAnnotations.test-annotation", "test-value">>} @@
  "controllerPodLabels" :> {<<"controller.podLabels.test-label", "test-value">>} @@
  "controllerDeploymentAnnotations" :> {<<"controller.deploymentAnnotations.deploy-annotation", "deploy-value">>} @@
  "controllerServiceAccountName" :> {<<"controller.serviceAccount.name", "custom-controller-sa">>} @@
  "controllerServiceAccountAnnotations" :> {} @@
  "controllerRevisionHistoryLimit" :> {<<"controller.revisionHistoryLimit", "5">>} @@
  "nodeNodeSelector" :> {<<"node.nodeSelector.node-type", "worker">>} @@
  "nodeTolerations" :> {<<"node.tolerations[0].key", "node-key">>, <<"node.tolerations[0].value", "node-value">>} @@
  "nodePriorityClassName" :> {<<"node.priorityClassName", "system-node-critical">>} @@
  "nodeResources" :> {<<"node.resources.requests.cpu", "50m">>, <<"node.resources.limits.memory", "128Mi">>} @@
  "nodePodAnnotations" :> {<<"node.podAnnotations.node-annotation", "node-value">>} @@
  "nodeDaemonSetAnnotations" :> {<<"node.daemonSetAnnotations.ds-annotation", "ds-value">>} @@
  "nodeRevisionHistoryLimit" :> {<<"node.revisionHistoryLimit", "3">>} @@
  "nodeServiceAccountName" :> {<<"node.serviceAccount.name", "custom-node-sa">>} @@
  "provisionerResources" :> {<<"sidecars.provisioner.resources.requests.cpu", "20m">>} @@
  "attacherResources" :> {<<"sidecars.attacher.resources.requests.cpu", "15m">>} @@
  "snapshotterResources" :> {<<"sidecars.snapshotter.resources.requests.cpu", "15m">>} @@
  "resizerResources" :> {<<"sidecars.resizer.resources.requests.cpu", "15m">>} @@
  "nodeDriverRegistrarResources" :> {<<"sidecars.nodeDriverRegistrar.resources.requests.cpu", "10m">>} @@
  "livenessProbeResources" :> {<<"sidecars.livenessProbe.resources.requests.cpu", "5m">>} @@
  "imageRepository" :> {} @@
  "imagePullPolicy" :> {<<"image.pullPolicy", "Always">>} @@
  "customLabels" :> {<<"customLabels.custom-label", "custom-value">>} @@
  "controllerEnv" :> {<<"controller.env[0].name", "TEST_ENV">>, <<"controller.env[0].value", "test-value">>} @@
  "nodeEnv" :> {<<"node.env[0].name", "NODE_ENV">>, <<"node.env[0].value", "node-value">>} @@
  "controllerAffinity" :> {} @@
  "nodeAffinity" :> {} @@
  "controllerTopologySpreadConstraints" :> {<<"controller.topologySpreadConstraints[0].topologyKey", "topology.kubernetes.io/zone">>} @@
  "controllerSecurityContext" :> {<<"controller.securityContext.runAsNonRoot", "true">>} @@
  "nodeSecurityContext" :> {} @@
  "controllerContainerSecurityContext" :> {<<"controller.containerSecurityContext.readOnlyRootFilesystem", "true">>} @@
  "controllerUpdateStrategy" :> {<<"controller.updateStrategy.type", "Recreate">>} @@
  "nodeUpdateStrategy" :> {<<"node.updateStrategy.type", "OnDelete">>} @@
  "controllerVolumes" :> {<<"controller.volumes[0].name", "extra-volume">>} @@
  "controllerVolumeMounts" :> {<<"controller.volumeMounts[0].name", "extra-volume">>, <<"controller.volumeMounts[0].mountPath", "/extra">>} @@
  "nodeVolumes" :> {<<"node.volumes[0].name", "node-extra-volume">>} @@
  "nodeVolumeMounts" :> {<<"node.volumeMounts[0].name", "node-extra-volume">>, <<"node.volumeMounts[0].mountPath", "/node-extra">>} @@
  "controllerAdditionalArgs" :> {} @@
  "nodeAdditionalArgs" :> {} @@
  "provisionerAdditionalArgs" :> {} @@
  "controllerDnsConfig" :> {<<"controller.dnsConfig.nameservers[0]", "8.8.8.8">>} @@
  "nodeDnsConfig" :> {<<"node.dnsConfig.nameservers[0]", "8.8.4.4">>} @@
  "controllerInitContainers" :> {<<"controller.initContainers[0].name", "init-container">>} @@
  "nodeInitContainers" :> {<<"node.initContainers[0].name", "node-init-container">>} @@
  "imagePullSecrets" :> {} @@
  "fullnameOverride" :> {} @@
  "controllerServiceMonitor" :> {} @@
  "nodeServiceMonitor" :> {}

\* The chart value a --set key belongs to: the key itself, or the chart value
\* it is a member (".x") or an element ("[0]") of.
ChartValueOfKey ==
  "controller.extraCreateMetadata" :> "controller.extraCreateMetadata" @@
  "controller.k8sTagClusterId" :> "controller.k8sTagClusterId" @@
  "controller.extraVolumeTags.TestKey" :> "controller.extraVolumeTags" @@
  "controller.enableMetrics" :> "controller.enableMetrics" @@
  "node.enableMetrics" :> "node.enableMetrics" @@
  "controller.batching" :> "controller.batching" @@
  "controller.defaultFsType" :> "controller.defaultFsType" @@
  "controller.loggingFormat" :> "controller.loggingFormat" @@
  "node.loggingFormat" :> "node.loggingFormat" @@
  "controller.logLevel" :> "controller.logLevel" @@
  "node.logLevel" :> "node.logLevel" @@
  "sidecars.provisioner.logLevel" :> "sidecars.provisioner.logLevel" @@
  "sidecars.attacher.logLevel" :> "sidecars.attacher.logLevel" @@
  "sidecars.snapshotter.logLevel" :> "sidecars.snapshotter.logLevel" @@
  "sidecars.resizer.logLevel" :> "sidecars.resizer.logLevel" @@
  "sidecars.nodeDriverRegistrar.logLevel" :> "sidecars.nodeDriverRegistrar.logLevel" @@
  "defaultStorageClass.enabled" :> "defaultStorageClass" @@
  "storageClasses[0].name" :> "storageClasses" @@
  "storageClasses[0].parameters.type" :> "storageClasses" @@
  "volumeSnapshotClasses[0].name" :> "volumeSnapshotClasses" @@
  "volumeSnapshotClasses[0].deletionPolicy" :> "volumeSnapshotClasses" @@
  "sidecars.snapshotter.forceEnable" :> "sidecars.snapshotter.forceEnable" @@
  "controller.userAgentExtra" :> "controller.userAgentExtra" @@
  "controller.enablePrometheusAnnotations" :> "controller.enablePrometheusAnnotations" @@
  "node.enablePrometheusAnnotations" :> "node.enablePrometheusAnnotations" @@
  "node.kubeletPath" :> "node.kubeletPath" @@
  "node.tolerateAllTaints" :> "node.tolerateAllTaints" @@
  "controller.podDisruptionBudget.enabled" :> "controller.podDisruptionBudget" @@
  "sidecars.provisioner.leaderElection.enabled" :> "sidecars.provisioner.leaderElection" @@
  "sidecars.attacher.leaderElection.enabled" :> "sidecars.attacher.leaderElection" @@
  "sidecars.resizer.leaderElection.enabled" :> "sidecars.resizer.leaderElection" @@
  "controller.volumeModificationFeature.enabled" :> "controller.volumeModificationFeature" @@
  "sidecars.provisioner.additionalArgs[0]" :> "sidecars.provisioner.additionalArgs" @@
  "sidecars.resizer.additionalArgs[0]" :> "sidecars.resizer.additionalArgs[0]" @@
  "sidecars.volumemodifier.logLevel" :> "sidecars.volumemodifier.logLevel" @@
  "sidecars.volumemodifier.leaderElection.enabled" :> "sidecars.volumemodifier.leaderElection" @@
  "node.reservedVolumeAttachments" :> "node.reservedVolumeAttachments" @@
  "node.hostNetwork" :> "node.hostNetwork" @@
  "node.serviceAccount.disableMutation" :> "node.serviceAccount.disableMutation" @@
  "node.terminationGracePeriodSeconds" :> "node.terminationGracePeriodSeconds" @@
  "node.volumeAttachLimit" :> "node.volumeAttachLimit" @@
  "debugLogs" :> "debugLogs" @@
  "controller.sdkDebugLog" :> "controller.sdkDebugLog" @@
  "sidecars.metadataLabeler.enabled" :> "sidecars.metadataLabeler.enabled" @@
  "node.metadataSources" :> "node.metadataSources" @@
  "sidecars.metadataLabeler.logLevel" :> "sidecars.metadataLabeler.logLevel" @@
  "useOldCSIDriver" :> "useOldCSIDriver" @@
  "node.legacyXFS" :> "node.legacyXFS" @@
  "node.selinux" :> "node.selinux" @@
  "fips" :> "fips" @@
  "controller.replicaCount" :> "controller.replicaCount" @@
  "controller.priorityClassName" :> "controller.priorityClassName" @@
  "controller.resources.requests.cpu" :> "controller.resources" @@
  "controller.resources.limits.memory" :> "controller.resources" @@
  "controller.podAnnotations.test-annotation" :> "controller.podAnnotations" @@
  "controller.podLabels.test-label" :> "controller.podLabels" @@
  "controller.deploymentAnnotations.deploy-annotation" :> "controller.deploymentAnnotations" @@
  "controller.revisionHistoryLimit" :> "controller.revisionHistoryLimit" @@
  "node.priorityClassName" :> "node.priorityClassName" @@
  "node.resources.requests.cpu" :> "node.resources" @@
  "node.resources.limits.memory" :> "node.resources" @@
  "node.podAnnotations.node-annotation" :> "node.podAnnotations" @@
  "node.daemonSetAnnotations.ds-annotation" :> "node.daemonSetAnnotations" @@
  "node.revisionHistoryLimit" :> "node.revisionHistoryLimit" @@
  "sidecars.provisioner.resources.requests.cpu" :> "sidecars.provisioner.resources" @@
  "sidecars.attacher.resources.requests.cpu" :> "sidecars.attacher.resources" @@
  "sidecars.snapshotter.resources.requests.cpu" :> "sidecars.snapshotter.resources" @@
  "sidecars.resizer.resources.requests.cpu" :> "sidecars.resizer.resources" @@
  "sidecars.nodeDriverRegistrar.resources.requests.cpu" :> "sidecars.nodeDriverRegistrar.resources" @@
  "sidecars.livenessProbe.resources.requests.cpu" :> "sidecars.livenessProbe.resources" @@
  "customLabels.custom-label" :> "customLabels" @@
  "controller.env[0].name" :> "controller.env" @@
  "controller.env[0].value" :> "controller.env" @@
  "node.env[0].name" :> "node.env" @@
  "node.env[0].value" :> "node.env" @@
  "controller.topologySpreadConstraints[0].maxSkew" :> "controller.topologySpreadConstraints" @@
  "controller.topologySpreadConstraints[0].topologyKey" :> "controller.topologySpreadConstraints" @@
  "controller.topologySpreadConstraints[0].whenUnsatisfiable" :> "controller.topologySpreadConstraints" @@
  "controller.securityContext.runAsNonRoot" :> "controller.securityContext" @@
  "controller.containerSecurityContext.readOnlyRootFilesystem" :> "controller.containerSecurityContext" @@
  "controller.volumes[0].name" :> "controller.volumes" @@
  "controller.volumes[0].configMap.name" :> "controller.volumes" @@
  "controller.volumeMounts[0].name" :> "controller.volumeMounts" @@
  "controller.volumeMounts[0].mountPath" :> "controller.volumeMounts" @@
  "node.volumes[0].name" :> "node.volumes" @@
  "node.volumes[0].configMap.name" :> "node.volumes" @@
  "node.volumeMounts[0].name" :> "node.volumeMounts" @@
  "node.volumeMounts[0].mountPath" :> "node.volumeMounts" @@
  "controller.dnsConfig.nameservers[0]" :> "controller.dnsConfig" @@
  "node.dnsConfig.nameservers[0]" :> "node.dnsConfig" @@
  "controller.initContainers[0].name" :> "controller.initContainers" @@
  "controller.initContainers[0].image" :> "controller.initContainers" @@
  "controller.initContainers[0].command[0]" :> "controller.initContainers" @@
  "controller.initContainers[0].command[1]" :> "controller.initContainers" @@
  "node.initContainers[0].name" :> "node.initContainers" @@
  "node.initContainers[0].image" :> "node.initContainers" @@
  "node.initContainers[0].command[0]" :> "node.initContainers" @@
  "node.initContainers[0].command[1]" :> "node.initContainers" @@
  "image.pullPolicy" :> "image.pullPolicy" @@
  "controller.updateStrategy.type" :> "controller.updateStrategy" @@
  "controller.updateStrategy.rollingUpdate" :> "controller.updateStrategy" @@
  "node.updateStrategy.type" :> "node.updateStrategy"
\* The tests that list the pods of the controller or of the node and look
\* for an argument of one container: the container name the test compares
\* with, and the arguments it accepts.
ContainerArgCheck ==
  "batching" :> [container |-> "ebs-plugin", flags |-> {"--batching=true"}] @@
  "controllerLoggingFormat" :> [container |-> "ebs-plugin", flags |-> {"--logging-format=json"}] @@
  "nodeLoggingFormat" :> [container |-> "ebs-plugin", flags |-> {"--logging-format=json"}] @@
  "controllerLogLevel" :> [container |-> "ebs-plugin", flags |-> {"-v=4", "--v=4"}] @@
  "nodeLogLevel" :> [container |-> "ebs-plugin", flags |-> {"-v=4", "--v=4"}] @@
  "provisionerLogLevel" :> [container |-> "csi-provisioner", flags |-> {"-v=4", "--v=4"}] @@
  "attacherLogLevel" :> [container |-> "csi-attacher", flags |-> {"-v=4", "--v=4"}] @@
  "snapshotterLogLevel" :> [container |-> "csi-snapshotter", flags |-> {"-v=4", "--v=4"}] @@
  "resizerLogLevel" :> [container |-> "csi-resizer", flags |-> {"-v=4", "--v=4"}] @@
  "nodeDriverRegistrarLogLevel" :> [container |-> "node-driver-registrar", flags |-> {"-v=4", "--v=4"}] @@
  "volumemodifierLogLevel" :> [container |-> "volumemodifier", flags |-> {"-v=4", "--v=4"}] @@
  "metadataLabelerLogLevel" :> [container |-> "metadata-labeler", flags |-> {"-v=4", "--v=4"}] @@
  "reservedVolumeAttachments" :> [container |-> "ebs-plugin", flags |-> {"--reserved-volume-attachments=2"}] @@
  "volumeAttachLimit" :> [container |-> "ebs-plugin", flags |-> {"--volume-attach-limit=25"}] @@
  "debugLogs" :> [container |-> "ebs-plugin", flags |-> {"-v=7", "--v=7"}] @@
  "sdkDebugLog" :> [container |-> "ebs-plugin", flags |-> {"--aws-sdk-debug-log=true"}] @@
  "legacyXFS" :> [container |-> "ebs-plugin", flags |-> {"--legacy-xfs=true"}] @@
  "controllerUserAgentExtra" :> [container |-> "ebs-plugin", flags |-> {"--user-agent-extra=e2e-test"}] @@
  "provisionerLeaderElection" :> [container |-> "csi-provisioner", flags |-> {"--leader-election=true"}] @@
  "attacherLeaderElection" :> [container |-> "csi-attacher", flags |-> {"--leader-election=true"}] @@
  "resizerLeaderElection" :> [container |-> "csi-resizer", flags |-> {"--leader-election=true"}] @@
  "volumemodifierLeaderElection" :> [container |-> "volumemodifier", flags |-> {"--leader-election=false"}]

\* ---------------------------------------------------------------------
\* What the cluster answers to a lookup, and what a test expects of it.

\* A container of the pod other than the one a test compares with, and an
\* argument other than the ones it compares with.
OtherContainer(container) ==
  IF container = "ebs-plugin" THEN "csi-provisioner" ELSE "ebs-plugin"
OtherArg(flags) ==
  IF "--batching=true" \in flags THEN "--logging-format=json" ELSE "--batching=true"

\* The result of a call that returned an error, or of no call yet.
NoResult == "no result"

\* The subsets of S of at most k elements.
RECURSIVE UpTo(_, _)
UpTo(S, k) ==
  IF k = 0 THEN {{}}
  ELSE LET T == UpTo(S, k - 1) IN T \cup {t \cup {e} : t \in T, e \in S}

\* pod.Spec.Containers: the containers of a pod by their name, each with its
\* arguments.
Containers(names, args) == UNION {[K -> SUBSET args] : K \in SUBSET names}

\* pods.Items for a test that looks for an argument of one container.  The
\* container it compares with has any of the arguments; of the other
\* container at most one argument is followed.
PodLists(x) ==
  LET c == ContainerArgCheck[x]
      pods == {pod \in Containers({c.container, OtherContainer(c.container)},
                                  c.flags \cup {OtherArg(c.flags)}) :
                 \A name \in DOMAIN pod :
                    name # c.container => Cardinality(pod[name]) <= 1}
  IN UpTo(pods, MaxPods)

\* The loop of such a test: the list is not empty, and in every pod every
\* container of the name the test compares with has one of the arguments.
ContainerArgExpectation(x, pods) ==
  LET c == ContainerArgCheck[x]
  IN /\ pods # {}
     /\ \A pod \in pods : \A name \in DOMAIN pod :
          name = c.container => \E arg \in pod[name] : arg \in c.flags

\* The argument the selinux test compares with.
SelinuxArg == "--warn-on-invalid-tag=false"

\* pods.Items for the selinux test: the containers of each pod, whether
\* pod.Spec.SecurityContext is set, and whether its SELinuxOptions are.
SelinuxPods ==
  {p \in [containers : Containers({"ebs-plugin"}, {SelinuxArg, OtherArg({SelinuxArg})}),
          securityContext : BOOLEAN, seLinuxOptions : BOOLEAN] :
     p.seLinuxOptions => p.securityContext}

SelinuxPodLists == UpTo(SelinuxPods, MaxPods)

\* hasSelinux of the selinux test, which the test computes and drops.
HasSelinux(pod) ==
  \E name \in DOMAIN pod.containers :
     name = "ebs-plugin" /\ SelinuxArg \in pod.containers[name]

\* The selinux test: the list is not empty; SELinuxOptions are expected to
\* be set only where they are set.
SelinuxExpectation(pods) ==
  /\ pods # {}
  /\ \A pod \in pods :
       (pod.securityContext /\ pod.seLinuxOptions) => pod.seLinuxOptions

\* rbacv1.PolicyRule: the resources and the verbs of a rule.
Resources == {"nodes", "*", "pods"}
Verbs == {"get", "patch", "update", "*"}
PolicyRules == [resources : SUBSET Resources \ {{}}, verbs : SUBSET Verbs \ {{}}]

\* clusterRole.Rules of ebs-csi-node-role.
ClusterRoles == UpTo(PolicyRules, MaxRules)

\* The loop of the nodeDisableMutation test: under a resource that is
\* "nodes", no verb is "patch" or "update".
ClusterRoleExpectation(rules) ==
  \A rule \in rules : \A resource \in rule.resources :
     resource = "nodes" =>
        \A verb \in rule.verbs : verb # "patch" /\ verb # "update"

\* svc.Annotations of a metrics Service, as the tests read them: an
\* annotation that is not set reads as the empty string.
Services == [scrape : {"true", "false", ""}, port : {"", "3301"}]

\* The expectations of the two Prometheus annotation tests, without the one
\* on the port.
ServiceExpectationScrapeOnly(svc) == svc.scrape = "true"

\* The expectations of the two Prometheus annotation tests.
ServiceExpectation(svc) == svc.scrape = "true" /\ svc.port # ""

PrometheusTests ==
  {"controllerEnablePrometheusAnnotations", "nodeEnablePrometheusAnnotations"}

\* The field deletionPolicy of a VolumeSnapshotClass: a string, not set, or
\* set to something that is no string.
NotSet == "<not set>"
NotAString == "<not a string>"
VolumeSnapshotClasses ==
  [name : {"test-vsc"}, deletionPolicy : {"Delete", "Retain", NotSet, NotAString}]

\* unstructured.NestedString(vsc.Object, "deletionPolicy").
NestedString(vsc) ==
  [value |-> IF vsc.deletionPolicy \in {NotSet, NotAString} THEN "" ELSE vsc.deletionPolicy,
   found |-> vsc.deletionPolicy \notin {NotSet, NotAString},
   err   |-> vsc.deletionPolicy = NotAString]

\* The expectations of the volumeSnapshotClasses test on the object it got.
VolumeSnapshotClassExpectation(vsc) ==
  /\ vsc.name = "test-vsc"
  /\ ~NestedString(vsc).err
  /\ NestedString(vsc).found
  /\ NestedString(vsc).value = "Delete"

\* The tests whose lookup is modelled with the object it returns.
DetailedTests ==
  DOMAIN ContainerArgCheck \cup {"selinux", "nodeDisableMutation", "volumeSnapshotClasses"}
    \cup PrometheusTests

\* What a successful lookup of test x can return.  The tests modelled in
\* full get the objects they read; of the others the model keeps whether
\* the object meets the expectations of the test.
Results(x, verb) ==
  IF x \in DOMAIN ContainerArgCheck THEN PodLists(x)
  ELSE IF x = "selinux" THEN SelinuxPodLists
  ELSE IF x = "nodeDisableMutation" THEN ClusterRoles
  ELSE IF x \in PrometheusTests THEN Services
  ELSE IF x = "volumeSnapshotClasses"
       THEN IF verb = "List" THEN UpTo(VolumeSnapshotClasses, 1) ELSE VolumeSnapshotClasses
  ELSE {"as expected", "not as expected"}

\* Whether every Expect of test x that follows the lookup holds of res.
Expectations(x, verb, res) ==
  IF x \in DOMAIN ContainerArgCheck THEN ContainerArgExpectation(x, res)
  ELSE IF x = "selinux" THEN SelinuxExpectation(res)
  ELSE IF x = "nodeDisableMutation" THEN ClusterRoleExpectation(res)
  ELSE IF x \in PrometheusTests THEN ServiceExpectation(res)
  ELSE IF x = "volumeSnapshotClasses"
       THEN verb = "List" \/ VolumeSnapshotClassExpectation(res)
  ELSE res = "as expected"
ParamTests == DOMAIN TestProgram

\* The tests whose body is test.Run of a DynamicallyProvisionedCmdVolumeTest.
ProvisioningTests == {x \in ParamTests : TestProgram[x][1].verb = "Run"}

\* EBS tags, as <<key, value>>.
ClusterTag == <<"kubernetes.io/cluster/e2e-param-test", "owned">>
ExtraTag == <<"TestKey", "TestValue">>
NamespaceTag(ns) == <<"kubernetes.io/created-for/pvc/namespace", ns>>

\* f.Namespace of the observed test; the framework gives every test a
\* namespace of its own, so the volumes of other tests carry another name.
OwnNamespace == "ebs-self"
OtherNamespace == "ebs-other"

\* The tag filter of the DescribeVolumes call in each ValidateFunc.
TagFilter ==
  "extraCreateMetadata" :> NamespaceTag(OwnNamespace) @@
  "k8sTagClusterId" :> ClusterTag @@
  "extraVolumeTags" :> ExtraTag

\* The tags a volume created by the driver under test may carry.
OwnTagSets == SUBSET {ClusterTag, ExtraTag, NamespaceTag(OwnNamespace)}
ForeignTagSets == SUBSET {ClusterTag, ExtraTag, NamespaceTag(OtherNamespace)}

\* Volumes are told apart by who made them and by their tags.
OwnVolume(tags) == [owner |-> "self", tags |-> tags]
ForeignVolume(tags) == [owner |-> "other", tags |-> tags]
ForeignVolumes == {v \in volumes : v.owner = "other"}

\* DescribeVolumes with a tag filter: the volumes that carry the tag.
DescribeVolumes(filter) == {v \in volumes : filter \in v.tags}

\* A validation that accepts an empty result.
ValidateFuncAnyCount(err, n) == ~err
\* Expect(err).NotTo(HaveOccurred()); Expect(len(result.Volumes)).To(BeNumerically(">=", 1))
ValidateFunc(err, n) == ~err /\ n >= 1

\* Every error taken as a reason to skip.
ErrorOutcomeAlwaysSkip(step) == "skipped"
\* What a test does with an error of the call: Expect(err) fails the test,
\* `if err != nil { Skip(...) }` skips it.
ErrorOutcome(step) == IF step.onErr = "skip" THEN "skipped" ELSE "failed"

\* The objects SetupWithDynamicVolumes and tpod.Create make in the test's namespace.
RunObjects == {"StorageClass", "PersistentVolumeClaim", "Pod"}

\* The deferred cleanups of Run: the pod, the claim and with it the volume.
RunCleanup ==
  /\ objects' = {}
  /\ volumes' = {v \in volumes : v.owner # "self"}

\* The first call of the test body, whatever has been called.
FirstStep == TestProgram[test][1]

\* The call the test body is at.
NextStep == TestProgram[test][tpc]

\* A call that creates an object in the cluster.
CreateEffect == objects' = objects \cup {"Pod"} /\ volumes' = volumes
\* Get and List only read: the cluster and the account stay as they are.
ReadEffect == UNCHANGED <<objects, volumes>>

\* A Get or List call of a test body and the expectations on its result up to
\* the next call.
ApiCall ==
  /\ outcome = "running"
  /\ tpc <= Len(TestProgram[test])
  /\ NextStep.verb \in {"Get", "List"}
  /\ \E err \in BOOLEAN :
       \E res \in (IF err THEN {NoResult} ELSE Results(test, NextStep.verb)) :
          LET met == ~err /\ Expectations(test, NextStep.verb, res) IN
          /\ calls' = Append(calls, [verb |-> NextStep.verb, resource |-> NextStep.resource,
                                     line |-> NextStep.line, err |-> err, met |-> met])
          /\ listed' = res
          /\ IF err THEN outcome' = ErrorOutcome(NextStep) /\ tpc' = tpc
             ELSE IF ~met THEN outcome' = "failed" /\ tpc' = tpc
             ELSE outcome' = outcome /\ tpc' = tpc + 1
  /\ ReadEffect
  /\ UNCHANGED <<test, ownTags, validation>>
  /\ UNCHANGED <<scriptVars, makeVars, mockVars>>

\* The It body returns: the test passed.
TestReturns ==
  /\ outcome = "running"
  /\ tpc > Len(TestProgram[test])
  /\ test \notin ProvisioningTests
  /\ outcome' = "passed"
  /\ UNCHANGED <<test, listed, tpc, calls, objects, volumes, ownTags, validation>>
  /\ UNCHANGED <<scriptVars, makeVars, mockVars>>

\* test.Run up to tpod.WaitForSuccess: the claim, the pod and, through the
\* driver under test, the EBS volume are created; the pod's command succeeds
\* or the test fails and the deferred cleanups run.
RunProvisions ==
  /\ outcome = "running"
  /\ tpc <= Len(TestProgram[test])
  /\ NextStep.verb = "Run"
  /\ calls' = Append(calls, [verb |-> "Create", resource |-> "persistentvolumeclaims, pods",
                             line |-> NextStep.line, err |-> FALSE, met |-> TRUE])
  /\ \E tags \in OwnTagSets, succeeded \in BOOLEAN :
       /\ ownTags' = tags
       /\ IF succeeded
            THEN /\ objects' = RunObjects
                 /\ volumes' = volumes \cup {OwnVolume(tags)}
                 /\ tpc' = tpc + 1
                 /\ outcome' = outcome
            ELSE /\ objects' = {}
                 /\ volumes' = volumes
                 /\ tpc' = tpc
                 /\ outcome' = "failed"
  /\ UNCHANGED <<test, listed, validation>>
  /\ UNCHANGED <<scriptVars, makeVars, mockVars>>

\* if t.ValidateFunc != nil { t.ValidateFunc() }: DescribeVolumes with the
\* test's tag filter, then the two expectations.
RunValidates ==
  /\ outcome = "running"
  /\ tpc <= Len(TestProgram[test])
  /\ NextStep.verb = "DescribeVolumes"
  /\ \E err \in BOOLEAN :
       LET n == IF err THEN 0 ELSE Cardinality(DescribeVolumes(TagFilter[test]))
           passes == ValidateFunc(err, n)
       IN /\ calls' = Append(calls, [verb |-> "DescribeVolumes", resource |-> "volumes",
                                     line |-> NextStep.line, err |-> err, met |-> passes])
          /\ validation' = [done |-> TRUE, err |-> err, count |-> n, passed |-> passes]
          /\ IF passes
               THEN tpc' = tpc + 1 /\ outcome' = outcome /\ UNCHANGED <<objects, volumes>>
               ELSE tpc' = tpc /\ outcome' = "failed" /\ RunCleanup
  /\ UNCHANGED <<test, listed, ownTags>>
  /\ UNCHANGED <<scriptVars, makeVars, mockVars>>

\* Run returns: the deferred cleanups run and the test passed.
RunReturns ==
  /\ outcome = "running"
  /\ tpc > Len(TestProgram[test])
  /\ test \in ProvisioningTests
  /\ outcome' = "passed"
  /\ RunCleanup
  /\ UNCHANGED <<test, listed, tpc, calls, ownTags, validation>>
  /\ UNCHANGED <<scriptVars, makeVars, mockVars>>

\* Another test of the same run (GINKGO_PARALLEL > 1) gets its volume from
\* the same driver, in the same account.  The volumes of the account are
\* followed beside the tests that read no pod list and no ClusterRole:
\* those tests never ask EC2.
OtherTestProvisions ==
  /\ outcome = "running"
  /\ test \notin DetailedTests
  /\ Cardinality(ForeignVolumes) < MaxForeign
  /\ \E tags \in ForeignTagSets :
       /\ ForeignVolume(tags) \notin volumes
       /\ volumes' = volumes \cup {ForeignVolume(tags)}
  /\ UNCHANGED <<test, listed, tpc, outcome, calls, objects, ownTags, validation>>
  /\ UNCHANGED <<scriptVars, makeVars, mockVars>>

\* Another test cleans up, or a leftover volume is removed.
OtherTestCleansUp ==
  /\ outcome = "running"
  /\ test \notin DetailedTests
  /\ \E v \in ForeignVolumes : volumes' = volumes \ {v}
  /\ UNCHANGED <<test, listed, tpc, outcome, calls, objects, ownTags, validation>>
  /\ UNCHANGED <<scriptVars, makeVars, mockVars>>

NotValidated == [done |-> FALSE, err |-> FALSE, count |-> 0, passed |-> FALSE]

\* No test observed.
TestIdle ==
  /\ test = "" /\ tpc = 0 /\ outcome = "idle" /\ calls = <<>> /\ listed = NoResult
  /\ objects = {} /\ volumes = {} /\ ownTags = {} /\ validation = NotValidated

\* The methods of the generated mock: the name each passes to ctrl.Call, the
\* interface type it asserts of the first return value, its declared
\* return type, and the name and the method type its recorder method
\* registers.
MockMethod ==
  "AdmissionregistrationV1" :> [call |-> "AdmissionregistrationV1", returns |-> "v1.AdmissionregistrationV1Interface", asserted |-> "v1.AdmissionregistrationV1Interface", record |-> "AdmissionregistrationV1", methodType |-> "AdmissionregistrationV1"] @@
  "AdmissionregistrationV1alpha1" :> [call |-> "AdmissionregistrationV1alpha1", returns |-> "v1alpha1.AdmissionregistrationV1alpha1Interface", asserted |-> "v1alpha1.AdmissionregistrationV1alpha1Interface", record |-> "AdmissionregistrationV1alpha1", methodType |-> "AdmissionregistrationV1alpha1"] @@
  "AdmissionregistrationV1beta1" :> [call |-> "AdmissionregistrationV1beta1", returns |-> "v1beta1.AdmissionregistrationV1beta1Interface", asserted |-> "v1beta1.AdmissionregistrationV1beta1Interface", record |-> "AdmissionregistrationV1beta1", methodType |-> "AdmissionregistrationV1beta1"] @@
  "AppsV1" :> [call |-> "AppsV1", returns |-> "v10.AppsV1Interface", asserted |-> "v10.AppsV1Interface", record |-> "AppsV1", methodType |-> "AppsV1"] @@
  "AppsV1beta1" :> [call |-> "AppsV1beta1", returns |-> "v1beta10.AppsV1beta1Interface", asserted |-> "v1beta10.AppsV1beta1Interface", record |-> "AppsV1beta1", methodType |-> "AppsV1beta1"] @@
  "AppsV1beta2" :> [call |-> "AppsV1beta2", returns |-> "v1beta2.AppsV1beta2Interface", asserted |-> "v1beta2.AppsV1beta2Interface", record |-> "AppsV1beta2", methodType |-> "AppsV1beta2"] @@
  "AuthenticationV1" :> [call |-> "AuthenticationV1", returns |-> "v11.AuthenticationV1Interface", asserted |-> "v11.AuthenticationV1Interface", record |-> "AuthenticationV1", methodType |-> "AuthenticationV1"] @@
  "AuthenticationV1alpha1" :> [call |-> "AuthenticationV1alpha1", returns |-> "v1alpha11.AuthenticationV1alpha1Interface", asserted |-> "v1alpha11.AuthenticationV1alpha1Interface", record |-> "AuthenticationV1alpha1", methodType |-> "AuthenticationV1alpha1"] @@
  "AuthenticationV1beta1" :> [call |-> "AuthenticationV1beta1", returns |-> "v1beta11.AuthenticationV1beta1Interface", asserted |-> "v1beta11.AuthenticationV1beta1Interface", record |-> "AuthenticationV1beta1", methodType |-> "AuthenticationV1beta1"] @@
  "AuthorizationV1" :> [call |-> "AuthorizationV1", returns |-> "v12.AuthorizationV1Interface", asserted |-> "v12.AuthorizationV1Interface", record |-> "AuthorizationV1", methodType |-> "AuthorizationV1"] @@
  "AuthorizationV1beta1" :> [call |-> "AuthorizationV1beta1", returns |-> "v1beta12.AuthorizationV1beta1Interface", asserted |-> "v1beta12.AuthorizationV1beta1Interface", record |-> "AuthorizationV1beta1", methodType |-> "AuthorizationV1beta1"] @@
  "AutoscalingV1" :> [call |-> "AutoscalingV1", returns |-> "v13.AutoscalingV1Interface", asserted |-> "v13.AutoscalingV1Interface", record |-> "AutoscalingV1", methodType |-> "AutoscalingV1"] @@
  "AutoscalingV2" :> [call |-> "AutoscalingV2", returns |-> "v2.AutoscalingV2Interface", asserted |-> "v2.AutoscalingV2Interface", record |-> "AutoscalingV2", methodType |-> "AutoscalingV2"] @@
  "AutoscalingV2beta1" :> [call |-> "AutoscalingV2beta1", returns |-> "v2beta1.AutoscalingV2beta1Interface", asserted |-> "v2beta1.AutoscalingV2beta1Interface", record |-> "AutoscalingV2beta1", methodType |-> "AutoscalingV2beta1"] @@
  "AutoscalingV2beta2" :> [call |-> "AutoscalingV2beta2", returns |-> "v2beta2.AutoscalingV2beta2Interface", asserted |-> "v2beta2.AutoscalingV2beta2Interface", record |-> "AutoscalingV2beta2", methodType |-> "AutoscalingV2beta2"] @@
  "BatchV1" :> [call |-> "BatchV1", returns |-> "v14.BatchV1Interface", asserted |-> "v14.BatchV1Interface", record |-> "BatchV1", methodType |-> "BatchV1"] @@
  "BatchV1beta1" :> [call |-> "BatchV1beta1", returns |-> "v1beta13.BatchV1beta1Interface", asserted |-> "v1beta13.BatchV1beta1Interface", record |-> "BatchV1beta1", methodType |-> "BatchV1beta1"] @@
  "CertificatesV1" :> [call |-> "CertificatesV1", returns |-> "v15.CertificatesV1Interface", asserted |-> "v15.CertificatesV1Interface", record |-> "CertificatesV1", methodType |-> "CertificatesV1"] @@
  "CertificatesV1alpha1" :> [call |-> "CertificatesV1alpha1", returns |-> "v1alpha12.CertificatesV1alpha1Interface", asserted |-> "v1alpha12.CertificatesV1alpha1Interface", record |-> "CertificatesV1alpha1", methodType |-> "CertificatesV1alpha1"] @@
  "CertificatesV1beta1" :> [call |-> "CertificatesV1beta1", returns |-> "v1beta14.CertificatesV1beta1Interface", asserted |-> "v1beta14.CertificatesV1beta1Interface", record |-> "CertificatesV1beta1", methodType |-> "CertificatesV1beta1"] @@
  "CoordinationV1" :> [call |-> "CoordinationV1", returns |-> "v16.CoordinationV1Interface", asserted |-> "v16.CoordinationV1Interface", record |-> "CoordinationV1", methodType |-> "CoordinationV1"] @@
  "CoordinationV1alpha1" :> [call |-> "CoordinationV1alpha1", returns |-> "v1alpha13.CoordinationV1alpha1Interface", asserted |-> "v1alpha13.CoordinationV1alpha1Interface", record |-> "CoordinationV1alpha1", methodType |-> "CoordinationV1alpha1"] @@
  "CoordinationV1beta1" :> [call |-> "CoordinationV1beta1", returns |-> "v1beta15.CoordinationV1beta1Interface", asserted |-> "v1beta15.CoordinationV1beta1Interface", record |-> "CoordinationV1beta1", methodType |-> "CoordinationV1beta1"] @@
  "CoreV1" :> [call |-> "CoreV1", returns |-> "v17.CoreV1Interface", asserted |-> "v17.CoreV1Interface", record |-> "CoreV1", methodType |-> "CoreV1"] @@
  "Discovery" :> [call |-> "Discovery", returns |-> "discovery.DiscoveryInterface", asserted |-> "discovery.DiscoveryInterface", record |-> "Discovery", methodType |-> "Discovery"] @@
  "DiscoveryV1" :> [call |-> "DiscoveryV1", returns |-> "v18.DiscoveryV1Interface", asserted |-> "v18.DiscoveryV1Interface", record |-> "DiscoveryV1", methodType |-> "DiscoveryV1"] @@
  "DiscoveryV1beta1" :> [call |-> "DiscoveryV1beta1", returns |-> "v1beta16.DiscoveryV1beta1Interface", asserted |-> "v1beta16.DiscoveryV1beta1Interface", record |-> "DiscoveryV1beta1", methodType |-> "DiscoveryV1beta1"] @@
  "EventsV1" :> [call |-> "EventsV1", returns |-> "v19.EventsV1Interface", asserted |-> "v19.EventsV1Interface", record |-> "EventsV1", methodType |-> "EventsV1"] @@
  "EventsV1beta1" :> [call |-> "EventsV1beta1", returns |-> "v1beta17.EventsV1beta1Interface", asserted |-> "v1beta17.EventsV1beta1Interface", record |-> "EventsV1beta1", methodType |-> "EventsV1beta1"] @@
  "ExtensionsV1beta1" :> [call |-> "ExtensionsV1beta1", returns |-> "v1beta18.ExtensionsV1beta1Interface", asserted |-> "v1beta18.ExtensionsV1beta1Interface", record |-> "ExtensionsV1beta1", methodType |-> "ExtensionsV1beta1"] @@
  "FlowcontrolV1" :> [call |-> "FlowcontrolV1", returns |-> "v110.FlowcontrolV1Interface", asserted |-> "v110.FlowcontrolV1Interface", record |-> "FlowcontrolV1", methodType |-> "FlowcontrolV1"] @@
  "FlowcontrolV1beta1" :> [call |-> "FlowcontrolV1beta1", returns |-> "v1beta19.FlowcontrolV1beta1Interface", asserted |-> "v1beta19.FlowcontrolV1beta1Interface", record |-> "FlowcontrolV1beta1", methodType |-> "FlowcontrolV1beta1"] @@
  "FlowcontrolV1beta2" :> [call |-> "FlowcontrolV1beta2", returns |-> "v1beta20.FlowcontrolV1beta2Interface", asserted |-> "v1beta20.FlowcontrolV1beta2Interface", record |-> "FlowcontrolV1beta2", methodType |-> "FlowcontrolV1beta2"] @@
  "FlowcontrolV1beta3" :> [call |-> "FlowcontrolV1beta3", returns |-> "v1beta3.FlowcontrolV1beta3Interface", asserted |-> "v1beta3.FlowcontrolV1beta3Interface", record |-> "FlowcontrolV1beta3", methodType |-> "FlowcontrolV1beta3"] @@
  "InternalV1alpha1" :> [call |-> "InternalV1alpha1", returns |-> "v1alpha10.InternalV1alpha1Interface", asserted |-> "v1alpha10.InternalV1alpha1Interface", record |-> "InternalV1alpha1", methodType |-> "InternalV1alpha1"] @@
  "NetworkingV1" :> [call |-> "NetworkingV1", returns |-> "v111.NetworkingV1Interface", asserted |-> "v111.NetworkingV1Interface", record |-> "NetworkingV1", methodType |-> "NetworkingV1"] @@
  "NetworkingV1alpha1" :> [call |-> "NetworkingV1alpha1", returns |-> "v1alpha14.NetworkingV1alpha1Interface", asserted |-> "v1alpha14.NetworkingV1alpha1Interface", record |-> "NetworkingV1alpha1", methodType |-> "NetworkingV1alpha1"] @@
  "NetworkingV1beta1" :> [call |-> "NetworkingV1beta1", returns |-> "v1beta110.NetworkingV1beta1Interface", asserted |-> "v1beta110.NetworkingV1beta1Interface", record |-> "NetworkingV1beta1", methodType |-> "NetworkingV1beta1"] @@
  "NodeV1" :> [call |-> "NodeV1", returns |-> "v112.NodeV1Interface", asserted |-> "v112.NodeV1Interface", record |-> "NodeV1", methodType |-> "NodeV1"] @@
  "NodeV1alpha1" :> [call |-> "NodeV1alpha1", returns |-> "v1alpha15.NodeV1alpha1Interface", asserted |-> "v1alpha15.NodeV1alpha1Interface", record |-> "NodeV1alpha1", methodType |-> "NodeV1alpha1"] @@
  "NodeV1beta1" :> [call |-> "NodeV1beta1", returns |-> "v1beta111.NodeV1beta1Interface", asserted |-> "v1beta111.NodeV1beta1Interface", record |-> "NodeV1beta1", methodType |-> "NodeV1beta1"] @@
  "PolicyV1" :> [call |-> "PolicyV1", returns |-> "v113.PolicyV1Interface", asserted |-> "v113.PolicyV1Interface", record |-> "PolicyV1", methodType |-> "PolicyV1"] @@
  "PolicyV1beta1" :> [call |-> "PolicyV1beta1", returns |-> "v1beta112.PolicyV1beta1Interface", asserted |-> "v1beta112.PolicyV1beta1Interface", record |-> "PolicyV1beta1", methodType |-> "PolicyV1beta1"] @@
  "RbacV1" :> [call |-> "RbacV1", returns |-> "v114.RbacV1Interface", asserted |-> "v114.RbacV1Interface", record |-> "RbacV1", methodType |-> "RbacV1"] @@
  "RbacV1alpha1" :> [call |-> "RbacV1alpha1", returns |-> "v1alpha16.RbacV1alpha1Interface", asserted |-> "v1alpha16.RbacV1alpha1Interface", record |-> "RbacV1alpha1", methodType |-> "RbacV1alpha1"] @@
  "RbacV1beta1" :> [call |-> "RbacV1beta1", returns |-> "v1beta113.RbacV1beta1Interface", asserted |-> "v1beta113.RbacV1beta1Interface", record |-> "RbacV1beta1", methodType |-> "RbacV1beta1"] @@
  "ResourceV1alpha3" :> [call |-> "ResourceV1alpha3", returns |-> "v1alpha3.ResourceV1alpha3Interface", asserted |-> "v1alpha3.ResourceV1alpha3Interface", record |-> "ResourceV1alpha3", methodType |-> "ResourceV1alpha3"] @@
  "SchedulingV1" :> [call |-> "SchedulingV1", returns |-> "v115.SchedulingV1Interface", asserted |-> "v115.SchedulingV1Interface", record |-> "SchedulingV1", methodType |-> "SchedulingV1"] @@
  "SchedulingV1alpha1" :> [call |-> "SchedulingV1alpha1", returns |-> "v1alpha17.SchedulingV1alpha1Interface", asserted |-> "v1alpha17.SchedulingV1alpha1Interface", record |-> "SchedulingV1alpha1", methodType |-> "SchedulingV1alpha1"] @@
  "SchedulingV1beta1" :> [call |-> "SchedulingV1beta1", returns |-> "v1beta114.SchedulingV1beta1Interface", asserted |-> "v1beta114.SchedulingV1beta1Interface", record |-> "SchedulingV1beta1", methodType |-> "SchedulingV1beta1"] @@
  "StorageV1" :> [call |-> "StorageV1", returns |-> "v116.StorageV1Interface", asserted |-> "v116.StorageV1Interface", record |-> "StorageV1", methodType |-> "StorageV1"] @@
  "StorageV1alpha1" :> [call |-> "StorageV1alpha1", returns |-> "v1alpha18.StorageV1alpha1Interface", asserted |-> "v1alpha18.StorageV1alpha1Interface", record |-> "StorageV1alpha1", methodType |-> "StorageV1alpha1"] @@
  "StorageV1beta1" :> [call |-> "StorageV1beta1", returns |-> "v1beta115.StorageV1beta1Interface", asserted |-> "v1beta115.StorageV1beta1Interface", record |-> "StorageV1beta1", methodType |-> "StorageV1beta1"] @@
  "StoragemigrationV1alpha1" :> [call |-> "StoragemigrationV1alpha1", returns |-> "v1alpha19.StoragemigrationV1alpha1Interface", asserted |-> "v1alpha19.StoragemigrationV1alpha1Interface", record |-> "StoragemigrationV1alpha1", methodType |-> "StoragemigrationV1alpha1"]

\* ---------------------------------------------------------------------
\* The generated mock of the Kubernetes client (mock_k8s_client.go).

\* The gomock controllers a mock can be created with.
Ctrls == {"ctrl1", "ctrl2"}

\* The nil interface value.
Nil == [type |-> "nil"]

\* An interface type other than T.
OtherType(T) ==
  IF T = "discovery.DiscoveryInterface"
  THEN "v1.AdmissionregistrationV1Interface" ELSE "discovery.DiscoveryInterface"

\* What ctrl.Call can hold in ret[0] for method M: nil, a value of the
\* interface type of M, or a value of another type.
Rets(M) ==
  {Nil, [type |-> MockMethod[M].asserted], [type |-> OtherType(MockMethod[M].asserted)]}

\* A type assertion that no type fails.
TypeAssertAny(T, v) == v

\* ret0, _ := ret[0].(T): the value if it is of type T, else the zero value.
TypeAssert(T, v) == IF v.type = T THEN v ELSE Nil

\* An operation record: the mock and the method it was made on, the
\* controller that was called with which receiver, name and method type,
\* how often ctrl.Call and ctrl.RecordCallWithMethodType were called, what
\* ctrl.Call returned and what the operation returned.
NoOperation ==
  [op |-> "none", mock |-> 0, method |-> "", ctrl |-> "", receiver |-> 0,
   name |-> "", methodType |-> "", ret |-> Nil, result |-> Nil, recorder |-> 0,
   ctrlCalls |-> 0, recordCalls |-> 0]

\* mock := &MockKubernetesClient{ctrl: ctrl}; mock.recorder = &...Recorder{mock}
NewMockKubernetesClient ==
  /\ Len(mocks) < MaxMocks
  /\ \E ctrl \in Ctrls :
       /\ mocks' = Append(mocks, [ctrl |-> ctrl, recorder |-> Len(recorders) + 1])
       /\ recorders' = Append(recorders, [mock |-> Len(mocks) + 1])
       /\ last' = [NoOperation EXCEPT !.op = "NewMockKubernetesClient",
                                      !.mock = Len(mocks) + 1, !.ctrl = ctrl,
                                      !.recorder = Len(recorders) + 1]
  /\ UNCHANGED <<scriptVars, makeVars, testVars>>

\* func (m *MockKubernetesClient) EXPECT(): return m.recorder
EXPECT ==
  /\ \E m \in 1..Len(mocks) :
       last' = [NoOperation EXCEPT !.op = "EXPECT", !.mock = m,
                                   !.recorder = mocks[m].recorder]
  /\ UNCHANGED <<mocks, recorders>>
  /\ UNCHANGED <<scriptVars, makeVars, testVars>>

\* func (m *MockKubernetesClient) M(): ret := m.ctrl.Call(m, "M");
\* ret0, _ := ret[0].(T); return ret0
MockMethodCall ==
  /\ \E m \in 1..Len(mocks), M \in DOMAIN MockMethod :
       \E ret \in Rets(M) :
          last' = [NoOperation EXCEPT !.op = "call", !.mock = m, !.method = M,
                                      !.ctrl = mocks[m].ctrl, !.receiver = m,
                                      !.name = MockMethod[M].call, !.ret = ret,
                                      !.ctrlCalls = 1,
                                      !.result = TypeAssert(MockMethod[M].asserted, ret)]
  /\ UNCHANGED <<mocks, recorders>>
  /\ UNCHANGED <<scriptVars, makeVars, testVars>>

\* func (mr *MockKubernetesClientMockRecorder) M():
\* return mr.mock.ctrl.RecordCallWithMethodType(mr.mock, "M", reflect.TypeOf(...M))
RecorderMethodCall ==
  /\ \E r \in 1..Len(recorders), M \in DOMAIN MockMethod :
       last' = [NoOperation EXCEPT !.op = "record", !.recorder = r, !.method = M,
                                   !.mock = recorders[r].mock,
                                   !.ctrl = mocks[recorders[r].mock].ctrl,
                                   !.receiver = recorders[r].mock,
                                   !.name = MockMethod[M].record,
                                   !.recordCalls = 1,
                                   !.methodType = MockMethod[M].methodType]
  /\ UNCHANGED <<mocks, recorders>>
  /\ UNCHANGED <<scriptVars, makeVars, testVars>>

\* No mock in use.
MockIdle ==
  /\ mocks = <<>> /\ recorders = <<>> /\ last = NoOperation
\* The template as shipped: every sidecar with its image and stale values.
Templates ==
  {[s \in K |-> [image |-> TemplateImage(s), tag |-> EmptyTag, manifestDigest |-> NoDigest]]
     : K \in SUBSET SidecarKeys}

ScriptInit ==
  /\ pc = "L19"
  /\ shopts = {}
  /\ errTrap = FALSE
  /\ exitTrap = FALSE
  /\ funcDepth = 0
  /\ exitStatus = "none"
  /\ stderr = <<>>
  /\ failure = NoFailure
  /\ tmpExists = FALSE
  /\ tmpFile = <<>>
  /\ loopWords = <<>>
  /\ sidecar = ""
  /\ image = ""
  /\ TAG = EmptyTag
  /\ DIGEST = NoDigest
  /\ outFile = <<>>
  /\ template \in Templates
  /\ registry \in [Images -> Listings]
  /\ MakeIdle
  /\ TestIdle
  /\ MockIdle

ScriptNext ==
  \/ SetOptions \/ SetScriptPath \/ Mktemp \/ TrapErr \/ TrapExit \/ CallMain
  \/ check_dependencies \/ generate_image_digests_file \/ ListSidecarKeys
  \/ ForEnter \/ ForNext \/ ReadImage \/ crane_get_latest_image_tag
  \/ WriteTag \/ ReadDigest \/ WriteDigest

SpecScript == ScriptInit /\ [][ScriptNext]_vars

\* make e2e/parameters [PARAM_SET=...] or make e2e/parameters-all [PARAM_SET=...]
MakeInit ==
  /\ goal \in {"e2e/parameters", "e2e/parameters-all"}
  /\ cmdParamSet \in ParamSetValues
  /\ PARAM_SET = cmdParamSet
  /\ makeLevel = 0
  /\ mk = "prereq"
  /\ tools \in SUBSET Prerequisites
  /\ allLine = 0
  /\ runs = <<>>
  /\ echoed = <<>>
  /\ makeErrors = <<>>
  /\ makeStatus = "running"
  /\ ScriptIdle
  /\ TestIdle
  /\ MockIdle

MakeNext ==
  \/ MakeTool \/ ParametersRecipe \/ RunShReturns
  \/ ParametersAllStart \/ ParametersAllSubMake \/ ParametersAllDone

SpecMake == MakeInit /\ [][MakeNext]_vars

\* One test starts, in an account that may hold volumes of earlier runs.
TestInit ==
  /\ test \in ParamTests
  /\ tpc = 1
  /\ outcome = "running"
  /\ calls = <<>>
  /\ listed = NoResult
  /\ objects = {}
  /\ volumes \in {V \in SUBSET {ForeignVolume(t) : t \in ForeignTagSets} :
                   /\ Cardinality(V) <= MaxForeign
                   /\ test \in DetailedTests => V = {}}
  /\ ownTags = {}
  /\ validation = NotValidated
  /\ ScriptIdle
  /\ MakeIdle
  /\ MockIdle

TestNext ==
  \/ ApiCall \/ TestReturns \/ RunProvisions \/ RunValidates \/ RunReturns
  \/ OtherTestProvisions \/ OtherTestCleansUp

SpecTest == TestInit /\ [][TestNext]_vars

\* ---------------------------------------------------------------------
\* The mock alone: no mock created yet.
MockInit ==
  /\ MockIdle
  /\ ScriptIdle
  /\ MakeIdle
  /\ TestIdle

MockNext ==
  \/ NewMockKubernetesClient \/ EXPECT \/ MockMethodCall \/ RecorderMethodCall

SpecMock == MockInit /\ [][MockNext]_vars
\* ----------------------------------------------------------------- claims
\* Lines of the commands that run inside generate_image_digests_file,
\* crane_get_latest_image_tag and update_sidecars_source_of_truth.
FunctionLines == {56, 63, 67, 71, 75, 78, 79}

\* C1 (as claimed): whenever a command inside one of the script's functions
\* fails and ends the script, the exit status is non-zero and error_handler
\* has printed that command and its line number before the exit.
C1_ErrTrapRunsOnFailureInFunction ==
  (pc = "exited" /\ failure.line \in FunctionLines) =>
     /\ exitStatus = 1
     /\ \E i \in 1..Len(stderr) :
           stderr[i].line = failure.line /\ stderr[i].command = failure.command

\* The tags of an image that do not contain "latest".
NonLatestTags(img) == {t \in registry[img] : ~t.latest}
\* t is the last of S in version-sort order.
IsLastInVersionOrder(t, S) == t \in S /\ \A u \in S \ {t} : VersionLess(u, t)

\* C2: when the script exits 0, every sidecar of the output file carries the
\* last tag in version-sort order among the tags of its image that do not
\* contain "latest" (no tag at all when there is none), and the digest the
\* registry holds for image:tag with that tag.
C2_OutputHoldsLatestTagAndDigest ==
  (pc = "exited" /\ exitStatus = 0) =>
     \A s \in DOMAIN outFile :
        LET e == outFile[s]
            cand == NonLatestTags(e.image)
        IN /\ e.image = TemplateImage(s)
           /\ IF cand = {} THEN e.tag = EmptyTag
              ELSE IsLastInVersionOrder(e.tag, cand)
           /\ e.manifestDigest \in CraneDigestResults(e.image, e.tag)
           /\ e.tag # EmptyTag => e.manifestDigest = <<e.image, e.tag>>

\* C2 witness: a successful run over two sidecars where one registry lists a
\* tag containing "latest" that sorts after the chosen tag.
C2_Witness ==
  /\ pc = "exited" /\ exitStatus = 0
  /\ Cardinality(DOMAIN outFile) = 2
  /\ \E s \in DOMAIN outFile :
        /\ outFile[s].tag # EmptyTag
        /\ \E t \in registry[outFile[s].image] : t.latest /\ VersionLess(outFile[s].tag, t)

\* ------------------------------------------------------ claims: Makefile
\* The Helm override for test X is among the flags: some --set key belongs to
\* the chart value of X, and every override whose value the test asserts is
\* present with exactly that value.
HasOverride(flags, X) ==
  /\ \E f \in flags : ChartValueOfKey[f[1]] = ChartValue[X]
  /\ AssertedOverrides[X] \subseteq flags

\* C5 (as claimed): every run of run.sh started by e2e/parameters carries,
\* for every test its GINKGO_FOCUS matches, the Helm override for that test
\* with the literal the test asserts.
C5_FocusedTestsHaveTheirOverride ==
  \A i \in 1..Len(runs) : \A X \in runs[i].focus : HasOverride(runs[i].flags, X)

\* The values the error messages and the chain name as accepted.
AcceptedParamSets ==
  {"standard", "volume-modification", "node-config", "volume-attach-limit",
   "storage-classes", "debug", "metadata-labeler", "legacy-compat", "selinux",
   "fips", "infra", "update-strategy"}

BranchNamed(n) ==
  CHOOSE b \in {Branch_standard, Branch_volume_modification, Branch_node_config,
                Branch_volume_attach_limit, Branch_storage_classes, Branch_debug,
                Branch_metadata_labeler, Branch_legacy_compat, Branch_selinux,
                Branch_fips, Branch_infra, Branch_update_strategy} : b.name = n

\* C8: once make has come to the recipe of e2e/parameters, an accepted
\* PARAM_SET has started ./hack/e2e/run.sh exactly once, with the focus and
\* the flags of that set; an unset or any other PARAM_SET has stopped make
\* with an error, and run.sh was never started.
C8_ParametersRunsOnceOrErrors ==
  (goal = "e2e/parameters" /\ mk \in {"run.sh", "done"}) =>
     IF cmdParamSet \in AcceptedParamSets
       THEN /\ Len(runs) = 1
            /\ runs[1].set = cmdParamSet
            /\ runs[1].focus = BranchNamed(cmdParamSet).focus
            /\ runs[1].flags = BranchNamed(cmdParamSet).flags
            /\ makeErrors = <<>>
       ELSE /\ runs = <<>>
            /\ makeStatus = "error"
            /\ Len(makeErrors) = 1

\* C8 witness: PARAM_SET=fips, whose run.sh has run once and returned.
C8_Witness ==
  /\ goal = "e2e/parameters" /\ mk = "done" /\ makeStatus = "ok"
  /\ cmdParamSet = "fips" /\ Len(runs) = 1 /\ runs[1].result = "ok"

\* C9 (as claimed): when e2e/parameters-all has completed, e2e/parameters
\* has run for every PARAM_SET that e2e/parameters accepts.
C9_ParametersAllRunsEveryAcceptedSet ==
  (goal = "e2e/parameters-all" /\ mk = "done" /\ makeStatus = "ok") =>
     \A s \in AcceptedParamSets : \E i \in 1..Len(runs) : runs[i].set = s

\* The order in which the recipe of e2e/parameters-all lists the sets.
ListedOrder ==
  <<"standard", "volume-modification", "node-config", "volume-attach-limit",
    "storage-classes", "debug", "infra", "update-strategy">>

SuccessMessage == "All parameter sets completed successfully!"

\* C10: in e2e/parameters-all the sets run in the listed order; a set has
\* started only if every earlier one succeeded; a failed set is the last one
\* started and has stopped make with an error; the success message is
\* printed only if every listed set has run and succeeded.
C10_ParametersAllSequentialFailFast ==
  goal = "e2e/parameters-all" =>
     /\ Len(runs) <= Len(ListedOrder)
     /\ \A i \in 1..Len(runs) :
          /\ runs[i].set = ListedOrder[i]
          /\ i < Len(runs) => runs[i].result = "ok"
          /\ runs[i].result = "failed" => makeStatus = "error" /\ mk = "done"
     /\ (\E j \in 1..Len(echoed) : echoed[j] = SuccessMessage) =>
          /\ Len(runs) = Len(ListedOrder)
          /\ \A i \in 1..Len(runs) : runs[i].result = "ok"

\* C10 witness: the third set failed after two succeeded; make has stopped and
\* no fourth set was started.
C10_Witness ==
  /\ goal = "e2e/parameters-all" /\ mk = "done" /\ makeStatus = "error"
  /\ Len(runs) = 3 /\ runs[1].result = "ok" /\ runs[2].result = "ok"
  /\ runs[3].result = "failed"

SkipLines == {828, 1225, 1245}

ReadVerbs == {"Get", "List", "DescribeVolumes"}
NothingOfOwn == objects = {} /\ \A v \in volumes : v.owner # "self"

TagTests == {"extraCreateMetadata", "k8sTagClusterId", "extraVolumeTags"}

\* C6: in the three tag tests the validation passes exactly when
\* DescribeVolumes returned no error and at least one volume; otherwise the
\* test has failed.
C6_ValidationIffNoErrorAndAVolume ==
  (test \in TagTests /\ validation.done) =>
     /\ validation.passed <=> (~validation.err /\ validation.count >= 1)
     /\ ~validation.passed => outcome = "failed"
     /\ validation.passed => outcome # "failed"

\* C6 witness: extraVolumeTags failed on an empty result without error.
C6_Witness ==
  /\ test = "extraVolumeTags" /\ validation.done /\ ~validation.err
  /\ validation.count = 0 /\ outcome = "failed"

\* C7 (as claimed): k8sTagClusterId and extraVolumeTags pass only if the
\* volume the test itself provisioned was created with the expected tag.
C7_PassOnlyIfOwnVolumeTagged ==
  (test \in {"k8sTagClusterId", "extraVolumeTags"} /\ outcome = "passed") =>
     TagFilter[test] \in ownTags

\* ------------------------------------------- claims: parameter sets (2)
FlagKeys(flags) == {f[1] : f \in flags}

\* C11: no run of run.sh carries both node.volumeAttachLimit and
\* node.reservedVolumeAttachments in HELM_EXTRA_FLAGS, and none focuses both
\* the volumeAttachLimit and the reservedVolumeAttachments test.
C11_AttachLimitAndReservedExclusive ==
  \A i \in 1..Len(runs) :
     /\ ~({"node.volumeAttachLimit", "node.reservedVolumeAttachments"} \subseteq FlagKeys(runs[i].flags))
     /\ ~({"volumeAttachLimit", "reservedVolumeAttachments"} \subseteq runs[i].focus)

\* C11 witness: node-config and volume-attach-limit have both run, one after
\* the other, in e2e/parameters-all.
C11_Witness ==
  /\ goal = "e2e/parameters-all"
  /\ \E i, j \in 1..Len(runs) :
       /\ "node.reservedVolumeAttachments" \in FlagKeys(runs[i].flags)
       /\ "reservedVolumeAttachments" \in runs[i].focus
       /\ "node.volumeAttachLimit" \in FlagKeys(runs[j].flags)
       /\ "volumeAttachLimit" \in runs[j].focus

\* The tests that assert '-v=4' on one container.
LogLevelTests ==
  {"controllerLogLevel", "nodeLogLevel", "provisionerLogLevel", "attacherLogLevel",
   "snapshotterLogLevel", "resizerLogLevel", "nodeDriverRegistrarLogLevel",
   "volumemodifierLogLevel", "metadataLabelerLogLevel"}

\* C12: a run of run.sh that sets debugLogs=true focuses no individual log
\* level test (and so a run that focuses one does not set debugLogs=true).
C12_DebugLogsApartFromLogLevels ==
  \A i \in 1..Len(runs) :
     <<"debugLogs", "true">> \in runs[i].flags => runs[i].focus \cap LogLevelTests = {}

\* C12 witness: the debug set has run, with debugLogs=true and the debugLogs
\* test focused.
C12_Witness ==
  /\ Len(runs) = 1 /\ runs[1].set = "debug"
  /\ <<"debugLogs", "true">> \in runs[1].flags /\ "debugLogs" \in runs[1].focus

\* ---------------------------------------------------------------------
\* Claims about the tests that read pods and the ClusterRole.

\* The tests that look for an argument of one container, but for debugLogs.
ContainerArgTests == DOMAIN ContainerArgCheck \ {"debugLogs"}

\* C13: a test that looks for an argument of one container passes only if
\* every pod of the list has a container of the name the test compares
\* with, and the arguments of that container hold the expected flag.
C13_PassOnlyIfEveryPodHasTheFlag ==
  (test \in ContainerArgTests /\ outcome = "passed") =>
     \A pod \in listed :
        \E name \in DOMAIN pod :
           /\ name = ContainerArgCheck[test].container
           /\ \E arg \in pod[name] : arg \in ContainerArgCheck[test].flags

\* C14: the debugLogs test passes only if every container of every pod of
\* the controller has the argument -v=7 or --v=7.
C14_PassOnlyIfEveryContainerIsVerbose ==
  (test = "debugLogs" /\ outcome = "passed") =>
     \A pod \in listed : \A name \in DOMAIN pod :
        \E arg \in pod[name] : arg \in {"-v=7", "--v=7"}

\* C15: the selinux test passes only if every pod of the node has SELinux
\* enabled in its arguments or in its security context.
C15_PassOnlyIfEveryPodHasSelinux ==
  (test = "selinux" /\ outcome = "passed") =>
     \A pod \in listed : HasSelinux(pod) \/ pod.seLinuxOptions

\* A rule grants a verb on a resource when it names them or the wildcard.
Grants(rule, verb, resource) ==
  /\ resource \in rule.resources \/ "*" \in rule.resources
  /\ verb \in rule.verbs \/ "*" \in rule.verbs

\* C16: the nodeDisableMutation test passes only if no rule of the
\* ClusterRole grants patch or update on nodes, wildcards included.
C16_PassOnlyIfNoRuleMutatesNodes ==
  (test = "nodeDisableMutation" /\ outcome = "passed") =>
     \A rule \in listed :
        ~Grants(rule, "patch", "nodes") /\ ~Grants(rule, "update", "nodes")

\* ---------------------------------------------------------------------
\* Claims about the course and the outcome of one test.

\* The tests that skip when their first lookup returns an error.
SkippingTests == PrometheusTests \cup {"volumeSnapshotClasses"}

\* What the three tests expect of the object they looked up last.
AsExpected ==
  IF test = "volumeSnapshotClasses"
  THEN listed.name = "test-vsc" /\ listed.deletionPolicy = "Delete"
  ELSE listed.scrape = "true" /\ listed.port # ""

\* C19: the volumeSnapshotClasses test and the two Prometheus annotation
\* tests end skipped exactly when the first lookup returned an error, passed
\* exactly when every lookup succeeded and the object is as expected, and
\* failed otherwise.
C19_SkippedPassedOrFailed ==
  (test \in SkippingTests /\ outcome \in {"skipped", "passed", "failed"}) =>
     /\ outcome = "skipped" <=> calls[1].err
     /\ outcome = "passed" <=>
          /\ Len(calls) = Len(TestProgram[test])
          /\ \A i \in 1..Len(calls) : ~calls[i].err
          /\ AsExpected
     /\ outcome = "failed" <=>
          /\ ~calls[1].err
          /\ \/ calls[Len(calls)].err
             \/ ~AsExpected

\* Each of the three outcomes has been seen: here the Service was found, its
\* scrape annotation is "true" and its port annotation is empty.
C19_Witness ==
  /\ test = "controllerEnablePrometheusAnnotations"
  /\ outcome = "failed"
  /\ Len(calls) = 1 /\ ~calls[1].err
  /\ listed.scrape = "true" /\ listed.port = ""

FocusedTests == UNION {Branches[i].focus : i \in 1..Len(Branches)}

\* C18: every test of the suite is run by some PARAM_SET: whichever test is
\* observed, GINKGO_FOCUS of at least one set matches its [param:X] label.
C18_EveryTestIsFocusedBySomeSet == test \in ParamTests => test \in FocusedTests

\* ---------------------------------------------------------------------
\* Claims about the generated mock.

\* C20: the mock only delegates.  A call of method M makes one ctrl.Call, on
\* the controller of the mock, with the mock as receiver and the name "M",
\* and returns the first return value, or nil when that value is not of the
\* return type of M; the recorder method M registers under the name "M" and
\* the method type of M; EXPECT returns the recorder that
\* NewMockKubernetesClient created for the mock, whose mock field is that
\* mock, and that recorder never changes.
C20_MockIsPureDelegation ==
  /\ [](/\ last.ctrlCalls = (IF last.op = "call" THEN 1 ELSE 0)
        /\ last.op = "call" =>
             /\ last.name = last.method
             /\ last.receiver = last.mock
             /\ last.ctrl = mocks[last.mock].ctrl
             /\ last.result = IF last.ret.type = MockMethod[last.method].returns
                              THEN last.ret ELSE Nil
        /\ last.op = "record" =>
             /\ last.name = last.method
             /\ last.methodType = last.method
             /\ last.receiver = recorders[last.recorder].mock
             /\ last.ctrl = mocks[last.receiver].ctrl
        /\ last.op = "EXPECT" =>
             /\ last.recorder = mocks[last.mock].recorder
             /\ recorders[last.recorder].mock = last.mock
        /\ last.op = "NewMockKubernetesClient" =>
             /\ mocks[last.mock].recorder = last.recorder
             /\ recorders[last.recorder].mock = last.mock
             /\ \A m \in 1..Len(mocks) :
                  m # last.mock => mocks[m].recorder # last.recorder)
  /\ [][\A m \in 1..Len(mocks) :
          mocks'[m] = mocks[m] /\ recorders'[mocks[m].recorder] = recorders[mocks[m].recorder]]_vars

\* The second mock was asked for StoragemigrationV1alpha1 and the controller
\* returned a value of another type: the method returned nil.
C20_Witness ==
  /\ Len(mocks) = 2
  /\ last.op = "call" /\ last.mock = 2
  /\ last.method = "StoragemigrationV1alpha1"
  /\ last.ret.type = "discovery.DiscoveryInterface"
  /\ last.result = Nil
====
